---------------------------- MODULE Spec2Model ----------------------------
(***************************************************************************)
(* A model of the verified-streaming core of bao-tree: the tree geometry,  *)
(* the traversal iterators (iter.rs), the outboard builder, the slice      *)
(* encoder and the streaming decoder (io/sync.rs).                         *)
(*                                                                         *)
(* Hashes are modelled as structural terms, which makes the hash           *)
(* collision free by construction:                                         *)
(*   chunk hash   <<counter, bytes, is_root>>            (3-tuple)         *)
(*   parent hash  <<left, right, is_root, 0>>            (4-tuple)         *)
(*   32 bytes that are no hash of the blob               (1- or 2-tuple)   *)
(* Byte counts keep the sizes of the wire format (8, 32, 64); the chunk    *)
(* size BLAKE3_CHUNK_SIZE (1024 in tree.rs) is scaled down to ChunkBytes.  *)
(***************************************************************************)
EXTENDS Integers, Naturals, Sequences, FiniteSets, TLC

(***************************************************************************)
(* Bounds of the model.                                                    *)
(***************************************************************************)
\* bytes per BLAKE3 chunk in the model (the program's value is 1024)
ChunkBytes == 2
\* the largest blob has MaxChunks full chunks
MaxChunks == 5
\* block sizes 0..MaxBlockSize (chunk_log)
MaxBlockSize == 1
\* a range set has at most MaxBoundaries boundaries
MaxBoundaries == 3
\* the blob kinds are 0..MaxBlobKind
MaxBlobKind == 0

(***************************************************************************)
(* Sizes of the wire format.                                               *)
(***************************************************************************)
HeaderLen == 8
HashLen == 32
PairLen == 64

None == -1

Min(a, b) == IF a < b THEN a ELSE b
Max(a, b) == IF a > b THEN a ELSE b
CeilDiv(a, b) == (a + b - 1) \div b

RECURSIVE NextPowerOfTwo(_)
NextPowerOfTwo(n) == IF n <= 1 THEN 1 ELSE 2 * NextPowerOfTwo(CeilDiv(n, 2))

SubSeqFrom(s, i) == SubSeq(s, i, Len(s))

RECURSIVE Reverse(_)
Reverse(s) == IF s = <<>> THEN <<>> ELSE Append(Reverse(Tail(s)), Head(s))

RECURSIVE Flatten(_)
Flatten(ss) == IF ss = <<>> THEN <<>> ELSE Head(ss) \o Flatten(Tail(ss))

RECURSIVE SumSeq(_)
SumSeq(s) == IF s = <<>> THEN 0 ELSE Head(s) + SumSeq(Tail(s))

(***************************************************************************)
(* TreeNode: in-order numbering of a complete binary tree.  A node's level *)
(* is its number of trailing one bits; leaves are the even numbers and     *)
(* cover two blocks each.                                                  *)
(***************************************************************************)
RECURSIVE level(_)
level(n) == IF n % 2 = 1 THEN 1 + level(n \div 2) ELSE 0

is_leaf(n) == level(n) = 0

\* the block number that separates the node's left half from its right half
mid(n) == n + 1

block_range(n) ==
    [start |-> n + 1 - 2^level(n), end |-> n + 1 + 2^level(n)]

left_child(n) == IF level(n) = 0 THEN None ELSE n - 2^(level(n) - 1)

right_child(n) == IF level(n) = 0 THEN None ELSE n + 2^(level(n) - 1)

RECURSIVE DescendLeft(_, _)
DescendLeft(n, len) ==
    IF n = None THEN None
    ELSE IF n >= len THEN DescendLeft(left_child(n), len)
    ELSE n

\* the right child, or its first left descendant that is a node of the tree
right_descendant(n, len) == DescendLeft(right_child(n), len)

parent(n) ==
    LET span == 2^level(n)
    IN  IF (n \div (2 * span)) % 2 = 0 THEN n + span ELSE n - span

\* The first ancestor that is a node of the tree (< len).  The search stops
\* on the left spine (n + 1 a power of two): every further ancestor is larger.
RECURSIVE restricted_parent(_, _)
restricted_parent(n, len) ==
    LET p == parent(n)
    IN  IF p < len THEN p
        ELSE IF NextPowerOfTwo(p + 1) = p + 1 THEN None
        ELSE restricted_parent(p, len)

(***************************************************************************)
(* BaoTree: [size, block_size, start_chunk, is_root].                      *)
(***************************************************************************)
BaoTree(size, block_size) ==
    [size |-> size, block_size |-> block_size, start_chunk |-> 0, is_root |-> TRUE]

chunk_group_chunks(tree) == 2^tree.block_size

chunk_group_bytes(tree) == ChunkBytes * 2^tree.block_size

\* ByteNum::chunks: number of chunks needed for that many bytes
ByteChunks(bytes) == CeilDiv(bytes, ChunkBytes)

chunks(tree) == ByteChunks(tree.size)

\* an empty tree has one block
blocks(tree) == Max(1, CeilDiv(tree.size, chunk_group_bytes(tree)))

root(tree) == NextPowerOfTwo((blocks(tree) + 1) \div 2) - 1

\* number of nodes of the tree: one per leaf node and one between two of them
filled_size(tree) == 2 * ((blocks(tree) + 1) \div 2) - 1

BlockBytes(tree, b) == b * chunk_group_bytes(tree)

BlockChunks(tree, b) == b * chunk_group_chunks(tree)

\* a leaf node whose right block holds no data is a half leaf: not persisted
is_persisted(tree, n) == ~is_leaf(n) \/ BlockBytes(tree, mid(n)) < tree.size

leaf_byte_ranges3(tree, leaf) ==
    [s |-> BlockBytes(tree, block_range(leaf).start),
     m |-> Min(BlockBytes(tree, mid(leaf)), tree.size),
     e |-> Min(BlockBytes(tree, block_range(leaf).end), tree.size)]

chunk_num(tree, leaf) == BlockChunks(tree, leaf) + tree.start_chunk

byte_range(tree, n) ==
    [start |-> BlockBytes(tree, block_range(n).start),
     end |-> Min(BlockBytes(tree, block_range(n).end), tree.size)]

\* the nodes of the tree, as the set the traversals visit
RECURSIVE SubtreeNodes(_, _)
SubtreeNodes(n, len) ==
    IF n = None THEN {}
    ELSE {n} \cup SubtreeNodes(left_child(n), len)
             \cup SubtreeNodes(right_descendant(n, len), len)

TreeNodes(tree) == SubtreeNodes(root(tree), filled_size(tree))

PersistedNodes(tree) == {n \in TreeNodes(tree) : is_persisted(tree, n)}

\* post-order sequence of the nodes below and including n
RECURSIVE PostOrderOf(_, _)
PostOrderOf(n, len) ==
    IF n = None THEN <<>>
    ELSE PostOrderOf(left_child(n), len)
         \o PostOrderOf(right_descendant(n, len), len) \o <<n>>

RECURSIVE PreOrderOf(_, _)
PreOrderOf(n, len) ==
    IF n = None THEN <<>>
    ELSE <<n>> \o PreOrderOf(left_child(n), len)
         \o PreOrderOf(right_descendant(n, len), len)

IndexOf(s, x) == CHOOSE i \in 1..Len(s) : s[i] = x

SelectPersisted(tree, s) == SelectSeq(s, LAMBDA n : is_persisted(tree, n))

\* offset, in pairs, of a node in the post-order outboard; None if not persisted
post_order_offset(tree, n) ==
    IF ~is_persisted(tree, n) THEN None
    ELSE IndexOf(SelectPersisted(tree, PostOrderOf(root(tree), filled_size(tree))), n) - 1

\* offset, in pairs, of a node in the pre-order outboard; None if not persisted
pre_order_offset(tree, n) ==
    IF ~is_persisted(tree, n) THEN None
    ELSE IndexOf(SelectPersisted(tree, PreOrderOf(root(tree), filled_size(tree))), n) - 1

outboard_size(size, block_size) ==
    HeaderLen + PairLen * Cardinality(PersistedNodes(BaoTree(size, block_size)))

(***************************************************************************)
(* Chunk ranges: a strictly increasing sequence of boundaries; membership  *)
(* toggles at every boundary (an odd number of boundaries is open ended).  *)
(***************************************************************************)
RangeContains(r, x) == Cardinality({i \in 1..Len(r) : r[i] <= x}) % 2 = 1

\* the chunks of 0..n-1 that the range set holds
RangeChunks(r, n) == {x \in 0..(n - 1) : RangeContains(r, x)}

is_all(r) == Len(r) = 1 /\ r[1] = 0

\* binary_search: the number of boundaries below `at`, and whether `at` is one
InsertionPoint(r, at) == Cardinality({i \in 1..Len(r) : r[i] < at})

Found(r, at) == \E i \in 1..Len(r) : r[i] = at

\* left agrees with r below `at`, right agrees with r from `at` on; both are
\* sub-slices of the boundaries of r
split(r, at) ==
    LET i == InsertionPoint(r, at)
        l == Len(r)
    IN  [left |-> SubSeq(r, 1, i),
         right |-> IF i % 2 = 0 THEN SubSeqFrom(r, i + 1)
                   ELSE IF Found(r, at) THEN SubSeqFrom(r, Min(i + 1, l) + 1)
                   ELSE SubSeqFrom(r, i)]

\* the length of the prefix of the boundaries that truncate_ranges keeps
truncated_len(r, size) ==
    LET lc == Max(ByteChunks(size) - 1, 0)
        i == InsertionPoint(r, lc)
    IN  IF Found(r, lc)
        THEN (IF i % 2 = 0 THEN i + 1
              ELSE IF Len(r) = i + 1 THEN i + 1 ELSE i)
        ELSE (IF i % 2 = 0
              THEN (IF Len(r) = i THEN i ELSE i + 1)
              ELSE i)

\* a range that ends at or after the end of the blob becomes open ended
truncate_ranges(r, size) == SubSeq(r, 1, truncated_len(r, size))

\* range_ok: the range set lies within [0, end)
range_ok(r, end) ==
    IF Len(r) = 0 THEN TRUE
    ELSE Len(r) % 2 = 0 /\ r[Len(r)] <= end

(***************************************************************************)
(* Hash primitives, as structural terms.                                   *)
(***************************************************************************)
hash_chunk(counter, bytes, is_root) == <<counter, bytes, is_root>>

parent_cv(l, r, is_root) == <<l, r, is_root, 0>>

\* the hash of up to a block of data: chunk hashes combined in a left-complete
\* binary tree (the left part is the largest power of two of chunks below all)
RECURSIVE hash_subtree(_, _, _)
hash_subtree(start_chunk, data, is_root) ==
    LET n == ByteChunks(Len(data))
    IN  IF n <= 1 THEN hash_chunk(start_chunk, data, is_root)
        ELSE LET lc == NextPowerOfTwo(n) \div 2
                 lb == lc * ChunkBytes
             IN  parent_cv(hash_subtree(start_chunk, SubSeq(data, 1, lb), FALSE),
                           hash_subtree(start_chunk + lc, SubSeqFrom(data, lb + 1), FALSE),
                           is_root)

\* blake3::Hash::from([0; 32])
ZeroHash == <<0>>

\* 32 bytes that differ from hash h in one byte
FlipHash(h) == <<h, 1>>

IsParentHash(h) == Len(h) = 4

(***************************************************************************)
(* PreOrderPartialIterRef (iter.rs): nodes in pre-order that overlap the   *)
(* ranges.  An iterator is a record; next returns the iterator after the   *)
(* call and the item, <<>> for None and <<x>> for Some(x).                 *)
(***************************************************************************)
U8Max == 255

Top(stack) == stack[Len(stack)]

Pop(stack) == SubSeq(stack, 1, Len(stack) - 1)

PreOrderPartialIterRef_new(tree, ranges, max_skip_level) ==
    [tree |-> tree,
     tree_filled_size |-> filled_size(tree),
     max_skip_level |-> max_skip_level,
     is_root |-> tree.is_root,
     stack |-> << [node |-> root(tree), ranges |-> ranges] >>]

\* a query leaf one level above what max_skip_level allows
query_leaf_of_level_above(node, full, max_skip_level) ==
    is_leaf(node) \/ (full /\ level(node) <= max_skip_level + 1)

\* whether a node with this `full` flag is a leaf for the purpose of the query
query_leaf_of(node, full, max_skip_level) ==
    is_leaf(node) \/ (full /\ level(node) <= max_skip_level)

\* the chunk at which the node's ranges are split
SplitPoint(tree, node) == BlockChunks(tree, mid(node))

RECURSIVE PreOrderPartialIterRef_next(_)
PreOrderPartialIterRef_next(it) ==
    IF it.stack = <<>> THEN [it |-> it, item |-> <<>>]
    ELSE
      LET node == Top(it.stack).node
          ranges == Top(it.stack).ranges
          rest == Pop(it.stack)
      IN  IF ranges = <<>>
          THEN PreOrderPartialIterRef_next([it EXCEPT !.stack = rest])
          ELSE
            LET tree == it.tree
                start == BlockChunks(tree, block_range(node).start)
                full == Len(ranges) = 1 /\ ranges[1] <= start
                sp == split(ranges, SplitPoint(tree, node))
                query_leaf == query_leaf_of(node, full, it.max_skip_level)
                pushed ==
                    IF ~query_leaf
                    THEN rest \o
                         << [node |-> right_descendant(node, it.tree_filled_size),
                             ranges |-> sp.right],
                            [node |-> left_child(node), ranges |-> sp.left] >>
                    ELSE rest
            IN  [it |-> [it EXCEPT !.stack = pushed, !.is_root = FALSE],
                 item |-> << [node |-> node,
                              ranges |-> ranges,
                              l_ranges |-> sp.left,
                              r_ranges |-> sp.right,
                              full |-> full,
                              query_leaf |-> query_leaf,
                              is_root |-> it.is_root,
                              is_half_leaf |-> ~is_persisted(tree, node)] >>]

(***************************************************************************)
(* BaoChunk directives.                                                    *)
(***************************************************************************)
ParentChunk(node, is_root, left, right, ranges) ==
    [kind |-> "Parent", node |-> node, is_root |-> is_root,
     left |-> left, right |-> right, ranges |-> ranges]

LeafChunk(start_chunk, size, is_root, ranges) ==
    [kind |-> "Leaf", start_chunk |-> start_chunk, size |-> size,
     is_root |-> is_root, ranges |-> ranges]

\* BaoChunk::size
ChunkSize(c) == IF c.kind = "Parent" THEN PairLen ELSE c.size

(***************************************************************************)
(* PreOrderChunkIterRef (iter.rs): the directives for a query, in          *)
(* pre-order.  `stack` holds the up to two leaves in flight.               *)
(***************************************************************************)
PreOrderChunkIterRef_new(tree, ranges, max_skip_level) ==
    [inner |-> PreOrderPartialIterRef_new(tree, ranges, max_skip_level),
     stack |-> <<>>]

\* leaves in flight, the left one with the is_root of its node
LeavesInFlight_root_left(tree, info) ==
    IF ~is_leaf(info.node) THEN <<>>
    ELSE
      LET b == leaf_byte_ranges3(tree, info.node)
          l_start_chunk == chunk_num(tree, info.node)
          r_start_chunk == l_start_chunk + chunk_group_chunks(tree)
      IN  (IF info.r_ranges # <<>> /\ ~info.is_half_leaf
           THEN << LeafChunk(r_start_chunk, b.e - b.m, FALSE, info.r_ranges) >>
           ELSE <<>>)
          \o
          (IF info.l_ranges # <<>>
           THEN << LeafChunk(l_start_chunk, b.m - b.s, info.is_root, info.l_ranges) >>
           ELSE <<>>)

\* the leaves a leaf node puts in flight: right below left
LeavesInFlight(tree, info) ==
    IF ~is_leaf(info.node) THEN <<>>
    ELSE
      LET b == leaf_byte_ranges3(tree, info.node)
          l_start_chunk == chunk_num(tree, info.node)
          r_start_chunk == l_start_chunk + chunk_group_chunks(tree)
      IN  (IF info.r_ranges # <<>> /\ ~info.is_half_leaf
           THEN << LeafChunk(r_start_chunk, b.e - b.m, FALSE, info.r_ranges) >>
           ELSE <<>>)
          \o
          (IF info.l_ranges # <<>>
           THEN << LeafChunk(l_start_chunk, b.m - b.s,
                             info.is_root /\ info.is_half_leaf, info.l_ranges) >>
           ELSE <<>>)

\* the directive emitted for a node that is not a half leaf
NodeChunk(tree, info) ==
    IF info.query_leaf /\ ~is_leaf(info.node)
    THEN LET bytes == byte_range(tree, info.node)
         IN  LeafChunk(ByteChunks(bytes.start), bytes.end - bytes.start,
                       info.is_root, info.ranges)
    ELSE ParentChunk(info.node, info.is_root,
                     info.l_ranges # <<>>, info.r_ranges # <<>>, info.ranges)

RECURSIVE PreOrderChunkIterRef_next(_)
\* the inner iterator returned the node `info`: a half leaf yields only the
\* leaves it put in flight
PreOrderChunkIterRef_node(it2, tree, info) ==
    IF ~info.is_half_leaf
    THEN [it |-> it2, item |-> << NodeChunk(tree, info) >>]
    ELSE PreOrderChunkIterRef_next(it2)

\* the stack is empty: r is what the inner iterator returned
PreOrderChunkIterRef_inner(it, r) ==
    IF r.item = <<>> THEN [it |-> [it EXCEPT !.inner = r.it], item |-> <<>>]
    ELSE PreOrderChunkIterRef_node(
             [inner |-> r.it, stack |-> LeavesInFlight(r.it.tree, r.item[1])],
             r.it.tree, r.item[1])

PreOrderChunkIterRef_next(it) ==
    IF it.stack # <<>>
    THEN [it |-> [it EXCEPT !.stack = Pop(it.stack)], item |-> << Top(it.stack) >>]
    ELSE PreOrderChunkIterRef_inner(it, PreOrderPartialIterRef_next(it.inner))

\* all remaining items of a PreOrderChunkIterRef
RECURSIVE PreOrderChunkIterRef_collect(_)
PreOrderChunkIterRef_rest(r) ==
    IF r.item = <<>> THEN <<>>
    ELSE r.item \o PreOrderChunkIterRef_collect(r.it)

PreOrderChunkIterRef_collect(it) == PreOrderChunkIterRef_rest(PreOrderChunkIterRef_next(it))

(***************************************************************************)
(* ResponseIterRef (iter.rs): the directives of a response, down to single *)
(* chunks where only part of a block is asked for.                         *)
(***************************************************************************)
ResponseParent(node, is_root, left, right) ==
    [kind |-> "Parent", node |-> node, is_root |-> is_root,
     left |-> left, right |-> right]

ResponseLeaf(start_chunk, size, is_root) ==
    [kind |-> "Leaf", start_chunk |-> start_chunk, size |-> size,
     is_root |-> is_root]

ResponseIterRef_new(tree, ranges, max_skip_level) ==
    [inner |-> PreOrderChunkIterRef_new(tree, ranges, max_skip_level),
     buffer |-> <<>>]

\* the little tree built for one leaf directive
LittleTree(leaf) ==
    [size |-> leaf.size, block_size |-> 0,
     start_chunk |-> leaf.start_chunk, is_root |-> leaf.is_root]

ToResponseChunk(c, keep_node) ==
    IF c.kind = "Parent"
    THEN ResponseParent(IF keep_node THEN c.node ELSE None, c.is_root, c.left, c.right)
    ELSE ResponseLeaf(c.start_chunk, c.size, c.is_root)

MapSeq(s, Op(_)) == [i \in 1..Len(s) |-> Op(s[i])]

\* the buffer after a leaf directive was expanded: reversed, so that pop
\* returns the items in the order of the little tree's traversal
ExpandLeaf(leaf) ==
    Reverse(MapSeq(PreOrderChunkIterRef_collect(
                       PreOrderChunkIterRef_new(LittleTree(leaf), leaf.ranges, U8Max)),
                   LAMBDA c : ToResponseChunk(c, FALSE)))

\* whether a leaf directive is passed on as it is
LeafIsWhole(tree, leaf) == tree.block_size = 0 \/ is_all(leaf.ranges)

RECURSIVE ResponseIterRef_next(_)
\* the inner iterator returned directive c: a partly requested block is
\* expanded into the buffer
ResponseIterRef_chunk(it2, tree, c) ==
    IF c.kind = "Parent" \/ LeafIsWhole(tree, c)
    THEN [it |-> it2, item |-> << ToResponseChunk(c, TRUE) >>]
    ELSE ResponseIterRef_next([it2 EXCEPT !.buffer = ExpandLeaf(c)])

\* the buffer is empty: r is what the inner iterator returned
ResponseIterRef_inner(it, r) ==
    IF r.item = <<>> THEN [it |-> [it EXCEPT !.inner = r.it], item |-> <<>>]
    ELSE ResponseIterRef_chunk([it EXCEPT !.inner = r.it], r.it.inner.tree, r.item[1])

ResponseIterRef_next(it) ==
    IF it.buffer # <<>>
    THEN [it |-> [it EXCEPT !.buffer = Pop(it.buffer)], item |-> << Top(it.buffer) >>]
    ELSE ResponseIterRef_inner(it, PreOrderChunkIterRef_next(it.inner))

RECURSIVE ResponseIterRef_collect(_)
ResponseIterRef_rest(r) ==
    IF r.item = <<>> THEN <<>>
    ELSE r.item \o ResponseIterRef_collect(r.it)

ResponseIterRef_collect(it) == ResponseIterRef_rest(ResponseIterRef_next(it))

(***************************************************************************)
(* PostOrderNodeIter and PostOrderChunkIter (iter.rs).                     *)
(***************************************************************************)
PostOrderNodeIter_new(tree) ==
    [len |-> filled_size(tree), curr |-> root(tree), prev |-> "Parent"]

\* a go_up that always reports coming from the right
go_up_from_right(it, curr) ==
    LET p == restricted_parent(curr, it.len)
    IN  IF p # None
        THEN [it EXCEPT !.curr = p, !.prev = "Right"]
        ELSE [it EXCEPT !.curr = curr, !.prev = "Done"]

\* go_up: to the parent, remembering the side we come from, or Done at the root
go_up(it, curr) ==
    LET p == restricted_parent(curr, it.len)
    IN  IF p # None
        THEN [it EXCEPT !.curr = p, !.prev = IF curr < p THEN "Left" ELSE "Right"]
        ELSE [it EXCEPT !.curr = curr, !.prev = "Done"]

RECURSIVE PostOrderNodeIter_next(_)
PostOrderNodeIter_next(it) ==
    LET curr == it.curr
    IN  CASE it.prev = "Parent" ->
               IF left_child(curr) # None
               THEN PostOrderNodeIter_next(
                        [it EXCEPT !.curr = left_child(curr), !.prev = "Parent"])
               ELSE [it |-> go_up(it, curr), item |-> <<curr>>]
          [] it.prev = "Left" ->
               PostOrderNodeIter_next(
                   [it EXCEPT !.curr = right_descendant(curr, it.len), !.prev = "Parent"])
          [] it.prev = "Right" -> [it |-> go_up(it, curr), item |-> <<curr>>]
          [] OTHER -> [it |-> it, item |-> <<>>]

\* PreOrderNodeIter (iter.rs): the same walk, a node emitted when it is
\* reached from above
PreOrderNodeIter_new(tree) ==
    [len |-> filled_size(tree), curr |-> root(tree), prev |-> "Parent"]

RECURSIVE PreOrderNodeIter_next(_)
PreOrderNodeIter_next(it) ==
    LET curr == it.curr
    IN  CASE it.prev = "Parent" ->
               [it |-> IF left_child(curr) # None
                       THEN [it EXCEPT !.curr = left_child(curr), !.prev = "Parent"]
                       ELSE go_up(it, curr),
                item |-> <<curr>>]
          [] it.prev = "Left" ->
               PreOrderNodeIter_next(
                   [it EXCEPT !.curr = right_descendant(curr, it.len), !.prev = "Parent"])
          [] it.prev = "Right" -> PreOrderNodeIter_next(go_up(it, curr))
          [] OTHER -> [it |-> it, item |-> <<>>]

PostOrderChunkIter_new(tree) ==
    [tree |-> tree, inner |-> PostOrderNodeIter_new(tree), stack |-> <<>>,
     root |-> root(tree)]

\* a traversal that gives every node a Parent, persisted or not
PostOrderInFlight_every_parent(tree, node, is_root) ==
    << ParentChunk(node, is_root, TRUE, TRUE, <<>>) >>
    \o
    (IF is_leaf(node)
        /\ leaf_byte_ranges3(tree, node).m # leaf_byte_ranges3(tree, node).e
     THEN << LeafChunk(chunk_num(tree, node) + chunk_group_chunks(tree),
                       leaf_byte_ranges3(tree, node).e - leaf_byte_ranges3(tree, node).m,
                       FALSE, <<>>) >>
     ELSE <<>>)

\* what a node puts in flight below the leaf that is returned: its Parent
\* (if persisted) below its right leaf (if it has one)
PostOrderInFlight(tree, node, is_root) ==
    (IF is_persisted(tree, node)
     THEN << ParentChunk(node, is_root, TRUE, TRUE, <<>>) >> ELSE <<>>)
    \o
    (IF is_leaf(node)
        /\ leaf_byte_ranges3(tree, node).m # leaf_byte_ranges3(tree, node).e
     THEN << LeafChunk(chunk_num(tree, node) + chunk_group_chunks(tree),
                       leaf_byte_ranges3(tree, node).e - leaf_byte_ranges3(tree, node).m,
                       FALSE, <<>>) >>
     ELSE <<>>)

RECURSIVE PostOrderChunkIter_next(_)
\* a traversal that does not return the left leaf of a leaf node
PostOrderChunkIter_node_skip_left(it2, tree, node, is_root, b) ==
    PostOrderChunkIter_next(it2)

\* the node iterator returned `node`: a leaf node yields its left leaf now
PostOrderChunkIter_node(it2, tree, node, is_root, b) ==
    IF is_leaf(node)
    THEN [it |-> it2,
          item |-> << LeafChunk(chunk_num(tree, node), b.m - b.s,
                                is_root /\ b.m = b.e, <<>>) >>]
    ELSE PostOrderChunkIter_next(it2)

\* the stack is empty: r is what the node iterator returned
PostOrderChunkIter_inner(it, r) ==
    IF r.item = <<>> THEN [it |-> [it EXCEPT !.inner = r.it], item |-> <<>>]
    ELSE PostOrderChunkIter_node(
             [it EXCEPT !.inner = r.it,
                        !.stack = PostOrderInFlight(it.tree, r.item[1],
                                                    r.item[1] = it.root)],
             it.tree, r.item[1], r.item[1] = it.root,
             leaf_byte_ranges3(it.tree, r.item[1]))

PostOrderChunkIter_next(it) ==
    IF it.stack # <<>>
    THEN [it |-> [it EXCEPT !.stack = Pop(it.stack)], item |-> << Top(it.stack) >>]
    ELSE PostOrderChunkIter_inner(it, PostOrderNodeIter_next(it.inner))

RECURSIVE PostOrderChunkIter_collect(_)
PostOrderChunkIter_rest(r) ==
    IF r.item = <<>> THEN <<>>
    ELSE r.item \o PostOrderChunkIter_collect(r.it)

PostOrderChunkIter_collect(it) == PostOrderChunkIter_rest(PostOrderChunkIter_next(it))

(***************************************************************************)
(* Blobs and byte files.  A file is a sequence of fields: a hash field     *)
(* holds the HashLen bytes of one hash, a bytes field holds explicit       *)
(* bytes.  Reading HashLen bytes that are not exactly one hash field       *)
(* yields 32 bytes that are no hash of the blob.                           *)
(***************************************************************************)
\* the byte at index i (from 0) of the blob of a kind: kind 0 differs from
\* byte to byte, kind n + 1 repeats the byte n
BlobByte(kind, i) == IF kind = 0 THEN (3 * i + 1) % 256 ELSE (kind - 1) % 256

Blob(kind, size) == [i \in 1..size |-> BlobByte(kind, i - 1)]

BytesField(bytes) == [tag |-> "bytes", hash |-> ZeroHash, bytes |-> bytes]

HashField(h) == [tag |-> "hash", hash |-> h, bytes |-> <<>>]

FieldLen(f) == IF f.tag = "hash" THEN HashLen ELSE Len(f.bytes)

RECURSIVE FileLen(_)
FileLen(file) == IF file = <<>> THEN 0 ELSE FieldLen(Head(file)) + FileLen(Tail(file))

\* the byte offset at which field k starts
FieldStart(file, k) == FileLen(SubSeq(file, 1, k - 1))

\* the field that holds the byte at offset p
FieldAt(file, p) ==
    CHOOSE k \in 1..Len(file) :
        FieldStart(file, k) <= p /\ p < FieldStart(file, k) + FieldLen(file[k])

\* one byte of a file; the bytes of a hash are values that no data byte has
ByteAt(file, p) ==
    LET k == FieldAt(file, p)
    IN  IF file[k].tag = "hash" THEN 256 + p
        ELSE file[k].bytes[p - FieldStart(file, k) + 1]

\* 32 bytes read at a place that is not one whole hash
GarbledHash(off) == <<off + 1>>

ReadHashAt(file, off) ==
    IF \E k \in 1..Len(file) : file[k].tag = "hash" /\ FieldStart(file, k) = off
    THEN file[CHOOSE k \in 1..Len(file) :
                  file[k].tag = "hash" /\ FieldStart(file, k) = off].hash
    ELSE GarbledHash(off)

\* read_exact_at(off, n): ok is FALSE when the file ends before off + n
ReadBytesAt(file, off, n) ==
    IF off + n > FileLen(file) THEN [ok |-> FALSE, bytes |-> <<>>]
    ELSE [ok |-> TRUE, bytes |-> [i \in 1..n |-> ByteAt(file, off + i - 1)]]

\* read_exact_at(off, 64) and parse_hash_pair
ReadPairAt(file, off) ==
    IF off + PairLen > FileLen(file) THEN [ok |-> FALSE, pair |-> <<>>]
    ELSE [ok |-> TRUE, pair |-> <<ReadHashAt(file, off), ReadHashAt(file, off + HashLen)>>]

\* u64::to_le_bytes and u64::from_le_bytes
RECURSIVE to_le_bytes(_, _)
to_le_bytes(n, k) ==
    IF k = 0 THEN <<>> ELSE <<n % 256>> \o to_le_bytes(n \div 256, k - 1)

RECURSIVE from_le_bytes(_)
from_le_bytes(b) == IF b = <<>> THEN 0 ELSE Head(b) + 256 * from_le_bytes(Tail(b))

\* a pair laid out right || left
combine_hash_pair_swapped(l, r) == << HashField(r), HashField(l) >>

\* combine_hash_pair: the 64 bytes left || right
combine_hash_pair(l, r) == << HashField(l), HashField(r) >>

(***************************************************************************)
(* Outboards.  An outboard is [kind, root, tree, data]; data is the file   *)
(* that backs it.  load returns [ok, some, pair]: ok is FALSE for an I/O   *)
(* error, some is FALSE for None.                                          *)
(***************************************************************************)
LoadNone == [ok |-> TRUE, some |-> FALSE, pair |-> <<>>]

LoadAt(file, off) ==
    LET r == ReadPairAt(file, off)
    IN  [ok |-> r.ok, some |-> r.ok, pair |-> r.pair]

\* a load that answers None where the pair cannot be read
PreOrderOutboard_load_lenient(ob, node) ==
    IF pre_order_offset(ob.tree, node) = None THEN LoadNone
    ELSE IF ReadPairAt(ob.data, pre_order_offset(ob.tree, node) * 64 + 8).ok
         THEN LoadAt(ob.data, pre_order_offset(ob.tree, node) * 64 + 8)
         ELSE LoadNone

\* PreOrderOutboard::load: 8 bytes of size, then the pairs in pre-order
PreOrderOutboard_load(ob, node) ==
    IF pre_order_offset(ob.tree, node) = None THEN LoadNone
    ELSE LoadAt(ob.data, pre_order_offset(ob.tree, node) * 64 + 8)

\* PostOrderOutboard::load
PostOrderOutboard_load(ob, node) ==
    IF post_order_offset(ob.tree, node) = None THEN LoadNone
    ELSE LoadAt(ob.data, post_order_offset(ob.tree, node) * 64 + 8)

\* PostOrderMemOutboard: data is the post-order file without its size suffix
PostOrderMemOutboard_load(ob, node) ==
    IF post_order_offset(ob.tree, node) = None THEN LoadNone
    ELSE LoadAt(ob.data, post_order_offset(ob.tree, node) * 64)

Outboard_load(ob, node) ==
    CASE ob.kind = "PreOrder" -> PreOrderOutboard_load(ob, node)
      [] ob.kind = "PostOrder" -> PostOrderOutboard_load(ob, node)
      [] OTHER -> PostOrderMemOutboard_load(ob, node)

\* PostOrderMemOutboard::load(root, reader, block_size): the constructor
PostOrderMemOutboard_new(root_hash, file, block_size) ==
    LET n == FileLen(file)
        len == from_le_bytes(ReadBytesAt(file, n - 8, 8).bytes)
    IN  IF n < 8 \/ n # outboard_size(len, block_size)
        THEN [ok |-> FALSE, kind |-> "PostOrderMem", root |-> root_hash,
              tree |-> BaoTree(0, block_size), data |-> <<>>]
        ELSE [ok |-> TRUE, kind |-> "PostOrderMem", root |-> root_hash,
              tree |-> BaoTree(len, block_size),
              data |-> SubSeq(file, 1, Len(file) - 1)]

\* PostOrderOutboard::new(root, block_size, data)
PostOrderOutboard_new(root_hash, block_size, file) ==
    LET n == FileLen(file)
        len == from_le_bytes(ReadBytesAt(file, n - 8, 8).bytes)
    IN  IF n < 8 \/ n # outboard_size(len, block_size)
        THEN [ok |-> FALSE, kind |-> "PostOrder", root |-> root_hash,
              tree |-> BaoTree(0, block_size), data |-> <<>>]
        ELSE [ok |-> TRUE, kind |-> "PostOrder", root |-> root_hash,
              tree |-> BaoTree(len, block_size), data |-> file]

(***************************************************************************)
(* The outboard builder, outboard_post_order (io/sync.rs).  A run is       *)
(* [stack, out, pos, panic]: the hash stack, the fields written to the     *)
(* outboard writer, the read position in the data, and whether a pop       *)
(* found the stack empty.                                                  *)
(***************************************************************************)
BuildStart == [stack |-> <<>>, out |-> <<>>, pos |-> 0, panic |-> FALSE]

\* a parent hash that is never finalized as the root
BuildParentHash_not_root(left_hash, right_hash, is_root) ==
    parent_cv(left_hash, right_hash, FALSE)

\* the hash that is pushed for a parent directive
BuildParentHash(left_hash, right_hash, is_root) == parent_cv(left_hash, right_hash, is_root)

\* a builder that pops the left hash first
BuildStep_left_first(run, data, item) ==
    IF item.kind = "Parent"
    THEN IF Len(run.stack) < 2 THEN [run EXCEPT !.panic = TRUE]
         ELSE LET left_hash == Top(run.stack)
                  right_hash == Top(Pop(run.stack))
              IN  [run EXCEPT
                     !.out = run.out \o << HashField(left_hash), HashField(right_hash) >>,
                     !.stack = Append(Pop(Pop(run.stack)),
                                      BuildParentHash(left_hash, right_hash, item.is_root))]
    ELSE LET buf == SubSeq(data, run.pos + 1, run.pos + item.size)
         IN  [run EXCEPT
                !.pos = run.pos + item.size,
                !.stack = Append(run.stack,
                                 hash_subtree(item.start_chunk, buf, item.is_root))]

\* one directive of outboard_post_order_impl
BuildStep(run, data, item) ==
    IF item.kind = "Parent"
    THEN IF Len(run.stack) < 2 THEN [run EXCEPT !.panic = TRUE]
         ELSE LET right_hash == Top(run.stack)
                  left_hash == Top(Pop(run.stack))
              IN  [run EXCEPT
                     !.out = run.out \o << HashField(left_hash), HashField(right_hash) >>,
                     !.stack = Append(Pop(Pop(run.stack)),
                                      BuildParentHash(left_hash, right_hash, item.is_root))]
    ELSE LET buf == SubSeq(data, run.pos + 1, run.pos + item.size)
         IN  [run EXCEPT
                !.pos = run.pos + item.size,
                !.stack = Append(run.stack,
                                 hash_subtree(item.start_chunk, buf, item.is_root))]

RECURSIVE BuildRun(_, _, _)
\* the body of the for loop: r is what the iterator returned
BuildLoop(run, data, r) ==
    IF r.item = <<>> \/ run.panic THEN run
    ELSE BuildRun(BuildStep(run, data, r.item[1]), data, r.it)

BuildRun(run, data, it) == BuildLoop(run, data, PostOrderChunkIter_next(it))

\* outboard_post_order_impl: the final stack holds the root hash
outboard_post_order_impl(tree, data) ==
    BuildRun(BuildStart, data, PostOrderChunkIter_new(tree))

\* a builder that ends the file with a byte more than the size
BuildResult_long_size(run, size) ==
    [hash |-> IF run.stack = <<>> THEN ZeroHash ELSE Top(run.stack),
     out |-> Append(run.out, BytesField(to_le_bytes(size, 9))),
     panic |-> run.panic \/ Len(run.stack) # 1]

\* what outboard_post_order returns after the run of the builder
BuildResult(run, size) ==
    [hash |-> IF run.stack = <<>> THEN ZeroHash ELSE Top(run.stack),
     out |-> Append(run.out, BytesField(to_le_bytes(size, 8))),
     panic |-> run.panic \/ Len(run.stack) # 1]

\* outboard_post_order: [hash, out], out being the pairs and the size suffix
outboard_post_order(data, size, block_size) ==
    BuildResult(outboard_post_order_impl(BaoTree(size, block_size), data), size)

(***************************************************************************)
(* The encoder, encode_ranges (io/sync.rs).  A run is [out, extra, part,   *)
(* err, dirs, stack]: the fields written in full; the number of bytes of   *)
(* one more write that reached the writer before it failed, and the fields *)
(* of that write; the error; the directives walked so far; the length of   *)
(* out after each directive that was encoded; and the hash stack of the    *)
(* validating encoders.                                                    *)
(*                                                                         *)
(* A fault is what the environment does to one directive: "none", "read"   *)
(* (the outboard or blob read fails), or "write" (the writer fails after   *)
(* taking k bytes of the write).                                           *)
(***************************************************************************)
NoErr == [kind |-> "None", a |-> 0]

Err(kind, a) == [kind |-> kind, a |-> a]

NoFault == [kind |-> "none", k |-> 0]

\* the header: the blob size as 8 little-endian bytes
HeaderField(size) == BytesField(to_le_bytes(size, 8))

\* an encoder that writes no header
EncodeStart_no_header(tree) ==
    [out |-> <<>>, extra |-> 0, part |-> <<>>,
     err |-> NoErr, dirs |-> <<>>, ends |-> <<>>, stack |-> <<>>]

EncodeStart(tree) ==
    [out |-> << HeaderField(tree.size) >>, extra |-> 0, part |-> <<>>,
     err |-> NoErr, dirs |-> <<>>, ends |-> <<>>, stack |-> <<>>]

\* read_exact_at on the blob
ReadBlob(data, start, size) ==
    IF start + size > Len(data) THEN [ok |-> FALSE, bytes |-> <<>>]
    ELSE [ok |-> TRUE, bytes |-> SubSeq(data, start + 1, start + size)]

\* write_all of `fields` under a fault: a failing write_all may have passed on
\* some of the bytes; write_all of no bytes never calls the writer
WriteAll(run, fields, fault) ==
    IF fault.kind = "write" /\ FileLen(fields) > 0
    THEN [run EXCEPT !.extra = Min(fault.k, FileLen(fields) - 1),
                     !.part = fields,
                     !.err = Err("Io", 0)]
    ELSE [run EXCEPT !.out = run.out \o fields]

\* the pair ld, loaded for a parent directive, is written in one write
WriteLoaded(run, ld, fault) ==
    IF fault.kind = "read" \/ ~ld.ok THEN [run EXCEPT !.err = Err("Io", 0)]
    ELSE IF ~ld.some THEN [run EXCEPT !.err = Err("Panic", 0)]
    ELSE WriteAll(run, combine_hash_pair(ld.pair[1], ld.pair[2]), fault)

\* the fields encode_ranges writes for a parent directive
EncodeParent(run, ob, item, fault) ==
    WriteLoaded(run, Outboard_load(ob, item.node), fault)

\* the fields encode_ranges writes for a leaf directive
EncodeLeaf(run, data, item, fault) ==
    LET rd == ReadBlob(data, item.start_chunk * ChunkBytes, item.size)
    IN  IF fault.kind = "read" \/ ~rd.ok THEN [run EXCEPT !.err = Err("Io", 0)]
        ELSE WriteAll(run, << BytesField(rd.bytes) >>, fault)

(***************************************************************************)
(* The older encoder, encode_ranges of io.rs: it checks the blob length    *)
(* and the ranges before the header, and writes a pair in two writes.      *)
(***************************************************************************)
\* the fault left for the second write_all of a pair
SecondWriteFault(fault) ==
    IF fault.kind = "write" /\ fault.k >= HashLen
    THEN [fault EXCEPT !.k = fault.k - HashLen] ELSE NoFault

\* the fault that strikes the first write_all of a pair
FirstWriteFault(fault) ==
    IF fault.kind = "write" /\ fault.k >= HashLen THEN NoFault ELSE fault

\* r_hash written after l_hash, w1 being the run after the first write
WriteSecond(w1, r_hash, fault) ==
    IF w1.err # NoErr THEN w1
    ELSE WriteAll(w1, << HashField(r_hash) >>, SecondWriteFault(fault))

\* l_hash and r_hash written one after the other
WritePairSplit(run, pair, fault) ==
    WriteSecond(WriteAll(run, << HashField(pair[1]) >>, FirstWriteFault(fault)),
                pair[2], fault)

\* the pair ld, loaded for a parent directive, is written in two writes
io_WriteLoaded(run, ld, fault) ==
    IF fault.kind = "read" \/ ~ld.ok THEN [run EXCEPT !.err = Err("Io", 0)]
    ELSE IF ~ld.some THEN [run EXCEPT !.err = Err("Panic", 0)]
    ELSE WritePairSplit(run, ld.pair, fault)

io_EncodeParent(run, ob, item, fault) ==
    io_WriteLoaded(run, Outboard_load(ob, item.node), fault)

\* the checks made before anything is written
io_PreCheck(blob, ob, rs) ==
    IF Len(blob) # ob.tree.size THEN Err("Io", 0)
    ELSE IF ~range_ok(rs, chunks(ob.tree)) THEN Err("InvalidQueryRange", 0)
    ELSE NoErr

\* a run that failed before the header
FailedStart(err) ==
    [out |-> <<>>, extra |-> 0, part |-> <<>>, err |-> err, dirs |-> <<>>,
     ends |-> <<>>, stack |-> <<>>]

(***************************************************************************)
(* The validating encoders, encode_ranges_validated of io/sync.rs and of   *)
(* io.rs: each pair and each leaf is checked against the hash stack, which *)
(* starts with the root of the outboard, before it is written.             *)
(***************************************************************************)
\* encode_selected_rec: the hash of the data of one block, and the pairs and
\* the data of the chunks that `query` selects, a pair before what is below it
RECURSIVE encode_selected_rec(_, _, _, _, _)
encode_selected_rec(start_chunk, buf, is_root, query, min_level) ==
    IF Len(buf) <= ChunkBytes
    THEN [hash |-> hash_chunk(start_chunk, buf, is_root),
          out |-> IF query # <<>> THEN << BytesField(buf) >> ELSE <<>>]
    ELSE
      LET n == NextPowerOfTwo(ByteChunks(Len(buf)))
          mid_chunk == start_chunk + n \div 2
          mid_bytes == (n \div 2) * ChunkBytes
          sp == split(query, mid_chunk)
          emit_parent == query # <<>> /\ (~is_all(query) \/ level(n - 1) - 1 >= min_level)
          l == encode_selected_rec(start_chunk, SubSeq(buf, 1, mid_bytes), FALSE,
                                   sp.left, min_level)
          r == encode_selected_rec(mid_chunk, SubSeqFrom(buf, mid_bytes + 1), FALSE,
                                   sp.right, min_level)
      IN  [hash |-> parent_cv(l.hash, r.hash, is_root),
           out |-> ((IF emit_parent THEN combine_hash_pair(l.hash, r.hash) ELSE <<>>)
                      \o l.out) \o r.out]

\* the children pushed the other way round: left below right
PushChildren_left_below(stack, item, l_hash, r_hash) ==
    (stack \o (IF item.left THEN <<l_hash>> ELSE <<>>))
           \o (IF item.right THEN <<r_hash>> ELSE <<>>)

\* the hashes a verified parent leaves on the stack: right below left
PushChildren(stack, item, l_hash, r_hash) ==
    (stack \o (IF item.right THEN <<r_hash>> ELSE <<>>))
           \o (IF item.left THEN <<l_hash>> ELSE <<>>)

\* the verified pair is written, in two writes if is_split
WriteVerified(run2, pair, fault, is_split) ==
    IF is_split THEN WritePairSplit(run2, pair, fault)
    ELSE WriteAll(run2, combine_hash_pair(pair[1], pair[2]), fault)

\* the pair ld, loaded for a parent directive, is compared with the top of
\* the stack and then written
ValidatedLoaded(run, ld, item, fault, is_split) ==
    IF fault.kind = "read" \/ ~ld.ok THEN [run EXCEPT !.err = Err("Io", 0)]
    ELSE IF ~ld.some \/ run.stack = <<>> THEN [run EXCEPT !.err = Err("Panic", 0)]
    ELSE IF parent_cv(ld.pair[1], ld.pair[2], item.is_root) # Top(run.stack)
    THEN [run EXCEPT !.stack = Pop(run.stack),
                     !.err = Err("ParentHashMismatch", item.node)]
    ELSE WriteVerified([run EXCEPT !.stack = PushChildren(Pop(run.stack), item,
                                                          ld.pair[1], ld.pair[2])],
                       ld.pair, fault, is_split)

\* the pair of a parent directive, verified and then written; is_split says
\* whether the two hashes are written one after the other
ValidatedParent(run, ob, item, fault, is_split) ==
    ValidatedLoaded(run, Outboard_load(ob, item.node), item, fault, is_split)

\* the pair ld is compared after it was written, which left the run `written`
ComparedAfterWrite(run, ld, written, item) ==
    IF written.err # NoErr THEN written
    ELSE IF parent_cv(ld.pair[1], ld.pair[2], item.is_root) # Top(run.stack)
    THEN [written EXCEPT !.stack = Pop(run.stack),
                         !.err = Err("ParentHashMismatch", item.node)]
    ELSE [written EXCEPT !.stack = PushChildren(Pop(run.stack), item,
                                                ld.pair[1], ld.pair[2])]

\* the pair ld is written before it is compared
WrittenFirst(run, ld, item, fault) ==
    IF fault.kind = "read" \/ ~ld.ok THEN [run EXCEPT !.err = Err("Io", 0)]
    ELSE IF ~ld.some \/ run.stack = <<>> THEN [run EXCEPT !.err = Err("Panic", 0)]
    ELSE ComparedAfterWrite(run, ld,
             WriteAll(run, combine_hash_pair(ld.pair[1], ld.pair[2]), fault), item)

\* a validating encoder that writes the pair before it compares it
v_EncodeParent_write_first(run, ob, item, fault) ==
    WrittenFirst(run, Outboard_load(ob, item.node), item, fault)

v_EncodeParent(run, ob, item, fault) == ValidatedParent(run, ob, item, fault, FALSE)

io_v_EncodeParent(run, ob, item, fault) == ValidatedParent(run, ob, item, fault, TRUE)

\* what is hashed and what is written for a leaf directive; selects says
\* whether a partly requested block is cut down to the requested chunks
LeafToWrite(ob, buf, item, selects) ==
    IF selects /\ ~is_all(item.ranges)
    THEN encode_selected_rec(item.start_chunk, buf, item.is_root, item.ranges,
                             ob.tree.block_size)
    ELSE [hash |-> hash_subtree(item.start_chunk, buf, item.is_root),
          out |-> << BytesField(buf) >>]

\* the leaf w is compared with the expected hash and then written
LeafChecked(run2, expected, w, start_chunk, fault) ==
    IF w.hash # expected THEN [run2 EXCEPT !.err = Err("LeafHashMismatch", start_chunk)]
    ELSE WriteAll(run2, w.out, fault)

\* the block rd was read for a leaf directive
LeafRead(run2, expected, rd, ob, item, fault, selects) ==
    IF fault.kind = "read" \/ ~rd.ok THEN [run2 EXCEPT !.err = Err("Io", 0)]
    ELSE LeafChecked(run2, expected, LeafToWrite(ob, rd.bytes, item, selects),
                     item.start_chunk, fault)

ValidatedLeaf(run, ob, blob, item, fault, selects) ==
    IF run.stack = <<>> THEN [run EXCEPT !.err = Err("Panic", 0)]
    ELSE LeafRead([run EXCEPT !.stack = Pop(run.stack)], Top(run.stack),
                  ReadBlob(blob, item.start_chunk * ChunkBytes, item.size),
                  ob, item, fault, selects)

v_EncodeLeaf(run, ob, blob, item, fault) == ValidatedLeaf(run, ob, blob, item, fault, TRUE)

io_v_EncodeLeaf(run, ob, blob, item, fault) == ValidatedLeaf(run, ob, blob, item, fault, FALSE)

(***************************************************************************)
(* The loop of the four encoders.                                          *)
(***************************************************************************)
\* the arm of encoder v that handles the directive
EncodeArm(v, run2, ob, blob, item, fault) ==
    CASE v = "sync" ->
           IF item.kind = "Parent" THEN EncodeParent(run2, ob, item, fault)
           ELSE EncodeLeaf(run2, blob, item, fault)
      [] v = "io" ->
           IF item.kind = "Parent" THEN io_EncodeParent(run2, ob, item, fault)
           ELSE EncodeLeaf(run2, blob, item, fault)
      [] v = "sync_validated" ->
           IF item.kind = "Parent" THEN v_EncodeParent(run2, ob, item, fault)
           ELSE v_EncodeLeaf(run2, ob, blob, item, fault)
      [] OTHER ->
           IF item.kind = "Parent" THEN io_v_EncodeParent(run2, ob, item, fault)
           ELSE io_v_EncodeLeaf(run2, ob, blob, item, fault)

\* a directive that was handled without error ends at the bytes written so far
StepDone(run3) ==
    IF run3.err = NoErr THEN [run3 EXCEPT !.ends = Append(run3.ends, Len(run3.out))]
    ELSE run3

\* one directive of encoder v
EncodeStep(v, run, ob, blob, item, fault) ==
    StepDone(EncodeArm(v, [run EXCEPT !.dirs = Append(run.dirs, item)], ob, blob,
                       item, fault))

\* the for loop over the directives; the fault strikes directive number failAt
RECURSIVE EncodeLoop(_, _, _, _, _, _, _)
\* the body of the loop: r is what the iterator returned
EncodeLoopBody(v, run, ob, blob, r, failAt, fault) ==
    IF r.item = <<>> \/ run.err # NoErr THEN run
    ELSE EncodeLoop(v, EncodeStep(v, run, ob, blob, r.item[1],
                                  IF Len(run.dirs) + 1 = failAt THEN fault ELSE NoFault),
                    ob, blob, r.it, failAt, fault)

EncodeLoop(v, run, ob, blob, it, failAt, fault) ==
    EncodeLoopBody(v, run, ob, blob, PreOrderChunkIterRef_next(it), failAt, fault)

\* encode_ranges(data, outboard, ranges, encoded) of io/sync.rs
encode_ranges(blob, ob, rs, failAt, fault) ==
    EncodeLoop("sync", EncodeStart(ob.tree), ob, blob,
               PreOrderChunkIterRef_new(ob.tree, rs, 0), failAt, fault)

\* encode_ranges_validated(data, outboard, ranges, encoded) of io/sync.rs
encode_ranges_validated(blob, ob, rs, failAt, fault) ==
    EncodeLoop("sync_validated", [EncodeStart(ob.tree) EXCEPT !.stack = << ob.root >>],
               ob, blob,
               PreOrderChunkIterRef_new(ob.tree, truncate_ranges(rs, ob.tree.size), 0),
               failAt, fault)

\* encode_ranges(data, outboard, ranges, encoded) of io.rs
io_encode_ranges(blob, ob, rs, failAt, fault) ==
    IF io_PreCheck(blob, ob, rs) # NoErr THEN FailedStart(io_PreCheck(blob, ob, rs))
    ELSE EncodeLoop("io", EncodeStart(ob.tree), ob, blob,
                    PreOrderChunkIterRef_new(ob.tree, rs, 0), failAt, fault)

\* encode_ranges_validated(data, outboard, ranges, encoded) of io.rs
io_encode_ranges_validated(blob, ob, rs, failAt, fault) ==
    IF io_PreCheck(blob, ob, rs) # NoErr THEN FailedStart(io_PreCheck(blob, ob, rs))
    ELSE EncodeLoop("io_validated",
                    [EncodeStart(ob.tree) EXCEPT !.stack = << ob.root >>], ob, blob,
                    PreOrderChunkIterRef_new(ob.tree, rs, 0), failAt, fault)

(***************************************************************************)
(* The decoder, DecodeResponseIter (io/sync.rs).  The iterator is          *)
(* [pos, ranges, block_size, iter, stack, rd]; rd is the number of bytes   *)
(* read from the encoded stream.  A call returns [tag, kind, a, data,      *)
(* pair, dir]: tag is "Item", "Err", "None" or "Panic".                    *)
(***************************************************************************)
DecodeResponseIter_new(root_hash, block_size, ranges) ==
    [api |-> "Response", pos |-> "Header", ranges |-> ranges, block_size |-> block_size,
     iter |-> <<>>, stack |-> << root_hash >>, rd |-> 0]

NoDir == ResponseLeaf(0, 0, FALSE)

Ret(tag, kind, a, data, pair, dir) ==
    [tag |-> tag, kind |-> kind, a |-> a, data |-> data, pair |-> pair, dir |-> dir]

RetNone == Ret("None", "None", 0, <<>>, <<>>, NoDir)

RetPanic(dir) == Ret("Panic", "Panic", 0, <<>>, <<>>, dir)

RetErr(kind, a, dir) == Ret("Err", kind, a, <<>>, <<>>, dir)

\* the ranges as the caller gave them
CanonicalRanges_as_given(d, tree) == d.ranges

\* now the size is known, the ranges are canonicalized
CanonicalRanges(d, tree) == truncate_ranges(d.ranges, tree.size)

\* a decoder that makes the iterator but stays in the Header state
DecodeHeader_stays(dec, wire) ==
    LET r == ReadBytesAt(wire, dec.rd, HeaderLen)
        size == from_le_bytes(r.bytes)
        tree == BaoTree(size, dec.block_size)
    IN  IF ~r.ok
        THEN [dec |-> [dec EXCEPT !.rd = FileLen(wire)],
              ret |-> RetErr("NotFound", 0, NoDir)]
        ELSE [dec |-> [dec EXCEPT
                         !.rd = dec.rd + HeaderLen,
                         !.iter = ResponseIterRef_new(tree, CanonicalRanges(dec, tree), 0)],
              ret |-> Ret("Item", "Header", size, <<>>, <<>>, NoDir)]

\* the Header state: read the size, build the tree, truncate the ranges
DecodeHeader(dec, wire) ==
    LET r == ReadBytesAt(wire, dec.rd, HeaderLen)
        size == from_le_bytes(r.bytes)
        tree == BaoTree(size, dec.block_size)
    IN  IF ~r.ok
        THEN [dec |-> [dec EXCEPT !.rd = FileLen(wire)],
              ret |-> RetErr("NotFound", 0, NoDir)]
        ELSE [dec |-> [dec EXCEPT
                         !.pos = "Content",
                         !.rd = dec.rd + HeaderLen,
                         !.iter = ResponseIterRef_new(tree, CanonicalRanges(dec, tree), 0)],
              ret |-> Ret("Item", "Header", size, <<>>, <<>>, NoDir)]

\* a decoder that takes any pair for a parent directive
ParentVerified_unchecked(expected, l_hash, r_hash, is_root) == TRUE

\* a decoder that takes any data for a leaf directive
LeafVerified_unchecked(expected, start_chunk, data, is_root) == TRUE

\* whether the pair read for a parent directive is accepted
ParentVerified(expected, l_hash, r_hash, is_root) ==
    expected = parent_cv(l_hash, r_hash, is_root)

\* whether the data read for a leaf directive is accepted
LeafVerified(expected, start_chunk, data, is_root) ==
    expected = hash_subtree(start_chunk, data, is_root)

DecodeParent(dec, wire, item) ==
    LET r == ReadPairAt(wire, dec.rd)
    IN  IF ~r.ok
        THEN [dec |-> [dec EXCEPT !.rd = FileLen(wire)],
              ret |-> RetErr("ParentNotFound", item.node, item)]
        ELSE
          LET dec2 == [dec EXCEPT !.rd = dec.rd + PairLen]
          IN  IF dec.stack = <<>> THEN [dec |-> dec2, ret |-> RetPanic(item)]
              ELSE IF ~ParentVerified(Top(dec.stack), r.pair[1], r.pair[2], item.is_root)
              THEN [dec |-> [dec2 EXCEPT !.stack = Pop(dec.stack)],
                    ret |-> RetErr("ParentHashMismatch", item.node, item)]
              ELSE [dec |-> [dec2 EXCEPT
                               !.stack = PushChildren(Pop(dec.stack), item,
                                                      r.pair[1], r.pair[2])],
                    ret |-> Ret("Item", "Parent", item.node, <<>>, r.pair, item)]

\* a decoder that takes the end of the stream for data that does not verify
DecodeLeaf_short_is_mismatch(dec, wire, item) ==
    LET r == ReadBytesAt(wire, dec.rd, item.size)
    IN  IF ~r.ok
        THEN [dec |-> [dec EXCEPT !.rd = FileLen(wire)],
              ret |-> RetErr("LeafHashMismatch", item.start_chunk, item)]
        ELSE
          LET dec2 == [dec EXCEPT !.rd = dec.rd + item.size]
          IN  IF dec.stack = <<>> THEN [dec |-> dec2, ret |-> RetPanic(item)]
              ELSE IF ~LeafVerified(Top(dec.stack), item.start_chunk, r.bytes, item.is_root)
              THEN [dec |-> [dec2 EXCEPT !.stack = Pop(dec.stack)],
                    ret |-> RetErr("LeafHashMismatch", item.start_chunk, item)]
              ELSE [dec |-> [dec2 EXCEPT !.stack = Pop(dec.stack)],
                    ret |-> Ret("Item", "Leaf", item.start_chunk * ChunkBytes,
                                r.bytes, <<>>, item)]

DecodeLeaf(dec, wire, item) ==
    LET r == ReadBytesAt(wire, dec.rd, item.size)
    IN  IF ~r.ok
        THEN [dec |-> [dec EXCEPT !.rd = FileLen(wire)],
              ret |-> RetErr("LeafNotFound", item.start_chunk, item)]
        ELSE
          LET dec2 == [dec EXCEPT !.rd = dec.rd + item.size]
          IN  IF dec.stack = <<>> THEN [dec |-> dec2, ret |-> RetPanic(item)]
              ELSE IF ~LeafVerified(Top(dec.stack), item.start_chunk, r.bytes, item.is_root)
              THEN [dec |-> [dec2 EXCEPT !.stack = Pop(dec.stack)],
                    ret |-> RetErr("LeafHashMismatch", item.start_chunk, item)]
              ELSE [dec |-> [dec2 EXCEPT !.stack = Pop(dec.stack)],
                    ret |-> Ret("Item", "Leaf", item.start_chunk * ChunkBytes,
                                r.bytes, <<>>, item)]

\* a decoder that returns what it reads and compares no hash
DecodeContent_unverified(dec, wire, r) ==
    IF r.item = <<>> THEN [dec |-> [dec EXCEPT !.iter = r.it], ret |-> RetNone]
    ELSE IF r.item[1].kind = "Parent"
    THEN IF ~ReadPairAt(wire, dec.rd).ok
         THEN [dec |-> [dec EXCEPT !.iter = r.it, !.rd = FileLen(wire)],
               ret |-> RetErr("ParentNotFound", r.item[1].node, r.item[1])]
         ELSE [dec |-> [dec EXCEPT !.iter = r.it, !.rd = dec.rd + PairLen],
               ret |-> Ret("Item", "Parent", r.item[1].node, <<>>,
                           ReadPairAt(wire, dec.rd).pair, r.item[1])]
    ELSE IF ~ReadBytesAt(wire, dec.rd, r.item[1].size).ok
         THEN [dec |-> [dec EXCEPT !.iter = r.it, !.rd = FileLen(wire)],
               ret |-> RetErr("LeafNotFound", r.item[1].start_chunk, r.item[1])]
         ELSE [dec |-> [dec EXCEPT !.iter = r.it, !.rd = dec.rd + r.item[1].size],
               ret |-> Ret("Item", "Leaf", r.item[1].start_chunk * ChunkBytes,
                           ReadBytesAt(wire, dec.rd, r.item[1].size).bytes,
                           <<>>, r.item[1])]

\* the Content state: r is what the response iterator returned
DecodeContent(dec, wire, r) ==
    IF r.item = <<>> THEN [dec |-> [dec EXCEPT !.iter = r.it], ret |-> RetNone]
    ELSE IF r.item[1].kind = "Parent"
    THEN DecodeParent([dec EXCEPT !.iter = r.it], wire, r.item[1])
    ELSE DecodeLeaf([dec EXCEPT !.iter = r.it], wire, r.item[1])

\* DecodeResponseIter::next0, and next, which transposes its result
DecodeResponseIter_next(dec, wire) ==
    IF dec.pos = "Header" THEN DecodeHeader(dec, wire)
    ELSE DecodeContent(dec, wire, ResponseIterRef_next(dec.iter))

(***************************************************************************)
(* The decoder of io.rs, DecodeSliceIter.  It walks the pre-order chunk    *)
(* iterator of the tree, verifies parents without emitting them, and a     *)
(* call returns the byte range of the next verified leaf, whose data is in *)
(* the scratch buffer.                                                     *)
(***************************************************************************)
DecodeSliceIter_new(root_hash, block_size, ranges) ==
    [api |-> "Slice", pos |-> "Header", ranges |-> ranges, block_size |-> block_size,
     iter |-> <<>>, stack |-> << root_hash >>, rd |-> 0]

\* a step of the loop of next0 that did not break
Continue == Ret("Continue", "Continue", 0, <<>>, <<>>, NoDir)

\* a Header arm that takes any ranges
SliceHeader_unchecked(dec, wire) ==
    LET r == ReadBytesAt(wire, dec.rd, HeaderLen)
        size == from_le_bytes(r.bytes)
        tree == BaoTree(size, dec.block_size)
    IN  IF ~r.ok
        THEN [dec |-> [dec EXCEPT !.rd = FileLen(wire)], ret |-> RetErr("Io", 0, NoDir)]
        ELSE [dec |-> [dec EXCEPT
                         !.pos = "Content",
                         !.rd = dec.rd + HeaderLen,
                         !.iter = PreOrderChunkIterRef_new(tree, dec.ranges, 0)],
              ret |-> Continue]

\* the Header arm: read the size, check the ranges, make the iterator
SliceHeader(dec, wire) ==
    LET r == ReadBytesAt(wire, dec.rd, HeaderLen)
        size == from_le_bytes(r.bytes)
        tree == BaoTree(size, dec.block_size)
    IN  IF ~r.ok
        THEN [dec |-> [dec EXCEPT !.rd = FileLen(wire)], ret |-> RetErr("Io", 0, NoDir)]
        ELSE IF ~range_ok(dec.ranges, ByteChunks(size))
        THEN [dec |-> [dec EXCEPT !.rd = dec.rd + HeaderLen],
              ret |-> RetErr("InvalidQueryRange", 0, NoDir)]
        ELSE [dec |-> [dec EXCEPT
                         !.pos = "Content",
                         !.rd = dec.rd + HeaderLen,
                         !.iter = PreOrderChunkIterRef_new(tree, dec.ranges, 0)],
              ret |-> Continue]

SliceParent(dec, wire, item) ==
    LET r == ReadPairAt(wire, dec.rd)
    IN  IF ~r.ok
        THEN [dec |-> [dec EXCEPT !.rd = FileLen(wire)], ret |-> RetErr("Io", 0, item)]
        ELSE
          LET dec2 == [dec EXCEPT !.rd = dec.rd + PairLen]
          IN  IF dec.stack = <<>> THEN [dec |-> dec2, ret |-> RetPanic(item)]
              ELSE IF ~ParentVerified(Top(dec.stack), r.pair[1], r.pair[2], item.is_root)
              THEN [dec |-> [dec2 EXCEPT !.stack = Pop(dec.stack)],
                    ret |-> RetErr("ParentHashMismatch", item.node, item)]
              ELSE [dec |-> [dec2 EXCEPT
                               !.stack = PushChildren(Pop(dec.stack), item,
                                                      r.pair[1], r.pair[2])],
                    ret |-> Continue]

SliceLeaf(dec, wire, item) ==
    LET r == ReadBytesAt(wire, dec.rd, item.size)
    IN  IF ~r.ok
        THEN [dec |-> [dec EXCEPT !.rd = FileLen(wire)], ret |-> RetErr("Io", 0, item)]
        ELSE
          LET dec2 == [dec EXCEPT !.rd = dec.rd + item.size]
          IN  IF dec.stack = <<>> THEN [dec |-> dec2, ret |-> RetPanic(item)]
              ELSE IF ~LeafVerified(Top(dec.stack), item.start_chunk, r.bytes, item.is_root)
              THEN [dec |-> [dec2 EXCEPT !.stack = Pop(dec.stack)],
                    ret |-> RetErr("LeafHashMismatch", item.start_chunk, item)]
              ELSE [dec |-> [dec2 EXCEPT !.stack = Pop(dec.stack)],
                    ret |-> Ret("Item", "Leaf", item.start_chunk * ChunkBytes,
                                r.bytes, <<>>, item)]

\* the Content arm: r is what the chunk iterator returned
SliceContent(dec, wire, r) ==
    IF r.item = <<>> THEN [dec |-> [dec EXCEPT !.iter = r.it], ret |-> RetNone]
    ELSE IF r.item[1].kind = "Parent"
    THEN SliceParent([dec EXCEPT !.iter = r.it], wire, r.item[1])
    ELSE SliceLeaf([dec EXCEPT !.iter = r.it], wire, r.item[1])

\* one turn of the loop of DecodeSliceIter::next0
SliceTurn(dec, wire) ==
    IF dec.pos = "Header" THEN SliceHeader(dec, wire)
    ELSE SliceContent(dec, wire, PreOrderChunkIterRef_next(dec.iter))

\* DecodeSliceIter::next0, and next, which transposes its result
RECURSIVE DecodeSliceIter_next(_, _)
\* the loop goes on after a turn t that did not break
SliceLoop(t, wire) ==
    IF t.ret.tag = "Continue" THEN DecodeSliceIter_next(t.dec, wire) ELSE t

DecodeSliceIter_next(dec, wire) == SliceLoop(SliceTurn(dec, wire), wire)

(***************************************************************************)
(* The pre-order backend: a file of the size header and one pair slot per  *)
(* persisted node, filled by write_outboard_from_mem through save.         *)
(***************************************************************************)
\* a zeroed pre-order outboard file for a tree
EmptyPreOrderFile(tree) ==
    << HeaderField(tree.size) >>
       \o [i \in 1..(2 * ((outboard_size(tree.size, tree.block_size) - 8) \div 64))
             |-> HashField(ZeroHash)]

\* a constructor that takes a file of any length that holds the 8 bytes
PreOrderOutboard_new_unchecked(root_hash, block_size, file) ==
    LET content == ReadBytesAt(file, 0, 8)
        len == from_le_bytes(content.bytes)
    IN  IF ~content.ok
        THEN [ok |-> FALSE, kind |-> "PreOrder", root |-> root_hash,
              tree |-> BaoTree(0, block_size), data |-> <<>>]
        ELSE [ok |-> TRUE, kind |-> "PreOrder", root |-> root_hash,
              tree |-> BaoTree(len, block_size), data |-> file]

\* PreOrderOutboard::new(root, block_size, data)
PreOrderOutboard_new(root_hash, block_size, file) ==
    LET content == ReadBytesAt(file, 0, 8)
        len == from_le_bytes(content.bytes)
    IN  IF ~content.ok \/ FileLen(file) # outboard_size(len, block_size)
        THEN [ok |-> FALSE, kind |-> "PreOrder", root |-> root_hash,
              tree |-> BaoTree(0, block_size), data |-> <<>>]
        ELSE [ok |-> TRUE, kind |-> "PreOrder", root |-> root_hash,
              tree |-> BaoTree(len, block_size), data |-> file]

\* PreOrderMemOutboard::load(root, reader, block_size): the constructor;
\* data is the pre-order file without its size prefix
PreOrderMemOutboard_new(root_hash, file, block_size) ==
    LET n == FileLen(file)
        len == from_le_bytes(ReadBytesAt(file, 0, 8).bytes)
    IN  IF n < 8 \/ n # outboard_size(len, block_size)
        THEN [ok |-> FALSE, kind |-> "PreOrderMem", root |-> root_hash,
              tree |-> BaoTree(0, block_size), data |-> <<>>]
        ELSE [ok |-> TRUE, kind |-> "PreOrderMem", root |-> root_hash,
              tree |-> BaoTree(len, block_size), data |-> Tail(file)]

\* a write of the pair laid out right || left
WritePairAt_swapped(file, off, pair) ==
    LET k == CHOOSE j \in 1..Len(file) : FieldStart(file, j) = off
    IN  [file EXCEPT ![k] = HashField(pair[2]), ![k + 1] = HashField(pair[1])]

\* write_all_at(off, pair) on a file whose pair slots are aligned
WritePairAt(file, off, pair) ==
    LET k == CHOOSE j \in 1..Len(file) : FieldStart(file, j) = off
    IN  [file EXCEPT ![k] = HashField(pair[1]), ![k + 1] = HashField(pair[2])]

\* PreOrderOutboard::save
PreOrderOutboard_save(ob, node, pair) ==
    IF pre_order_offset(ob.tree, node) = None THEN ob
    ELSE [ob EXCEPT !.data = WritePairAt(ob.data,
                                         pre_order_offset(ob.tree, node) * 64 + 8, pair)]

\* a Parent arm that saves the pair as (right, left)
FillStep_pair_swapped(run, data, item) ==
    IF item.kind = "Parent"
    THEN IF Len(run.stack) < 2 THEN [run EXCEPT !.panic = TRUE]
         ELSE LET right_hash == Top(run.stack)
                  left_hash == Top(Pop(run.stack))
              IN  [run EXCEPT
                     !.ob = PreOrderOutboard_save(run.ob, item.node,
                                                  <<right_hash, left_hash>>),
                     !.stack = Append(Pop(Pop(run.stack)),
                                      parent_cv(left_hash, right_hash, item.is_root))]
    ELSE LET start == item.start_chunk * ChunkBytes
             buf == SubSeq(data, start + 1, start + item.size)
         IN  [run EXCEPT
                !.stack = Append(run.stack,
                                 hash_subtree(item.start_chunk, buf, item.is_root))]

\* one directive of write_outboard_from_mem; a run is [stack, ob, panic]
FillStep(run, data, item) ==
    IF item.kind = "Parent"
    THEN IF Len(run.stack) < 2 THEN [run EXCEPT !.panic = TRUE]
         ELSE LET right_hash == Top(run.stack)
                  left_hash == Top(Pop(run.stack))
              IN  [run EXCEPT
                     !.ob = PreOrderOutboard_save(run.ob, item.node,
                                                  <<left_hash, right_hash>>),
                     !.stack = Append(Pop(Pop(run.stack)),
                                      parent_cv(left_hash, right_hash, item.is_root))]
    ELSE LET start == item.start_chunk * ChunkBytes
             buf == SubSeq(data, start + 1, start + item.size)
         IN  [run EXCEPT
                !.stack = Append(run.stack,
                                 hash_subtree(item.start_chunk, buf, item.is_root))]

RECURSIVE FillRun(_, _, _)
\* the body of the for loop: r is what the iterator returned
FillLoop(run, data, r) ==
    IF r.item = <<>> \/ run.panic THEN run
    ELSE FillRun(FillStep(run, data, r.item[1]), data, r.it)

FillRun(run, data, it) == FillLoop(run, data, PostOrderChunkIter_next(it))

\* what write_outboard_from_mem returns after the loop
FillResult(run) ==
    [ok |-> ~run.panic /\ Len(run.stack) = 1, ob |-> run.ob,
     hash |-> IF run.stack = <<>> THEN ZeroHash ELSE Top(run.stack)]

\* write_outboard_from_mem(data, outboard): [ok, ob, hash]
write_outboard_from_mem(data, ob) ==
    IF ob.tree.size # Len(data) THEN [ok |-> FALSE, ob |-> ob, hash |-> ZeroHash]
    ELSE FillResult(FillRun([stack |-> <<>>, ob |-> ob, panic |-> FALSE], data,
                            PostOrderChunkIter_new(ob.tree)))

(***************************************************************************)
(* The state: a blob and a block size; the root hash and the outboards     *)
(* built from the blob, one per backend; the ranges of a request; the      *)
(* encoder runs made for it; the stream handed to the decoder; the decoder *)
(* and what its calls to next returned.                                    *)
(***************************************************************************)
VARIABLES phase, data, block_size, root_hash, obs, ranges, enc, feed, wire, dec, rets

vars == <<phase, data, block_size, root_hash, obs, ranges, enc, feed, wire, dec, rets>>

\* what was done to a stream on its way: nothing, field k changed (byte j of
\* it), the stream cut after k fields, or the size in the header replaced by k
NoTamper == [kind |-> "none", k |-> 0, j |-> 0]

\* a stream as it left an encoder
FromEncoder == [src |-> "encoded", tamper |-> NoTamper]

Backends == {"PreOrder", "PostOrder", "PostOrderMem"}

Boundaries == 0..(MaxChunks + 1)

\* the range sets: strictly increasing boundary lists
RangeSetsOf(n) ==
    {s \in [1..n -> Boundaries] : \A i \in 1..n : \A j \in 1..n : i < j => s[i] < s[j]}

ChunkRangesSet == UNION {RangeSetsOf(n) : n \in 0..MaxBoundaries}

Blobs == {Blob(k, n) : k \in 0..MaxBlobKind, n \in 0..(MaxChunks * ChunkBytes)}

Init ==
    /\ phase = "new"
    /\ data \in Blobs
    /\ block_size \in 0..MaxBlockSize
    /\ root_hash = ZeroHash
    /\ obs = <<>>
    /\ ranges = <<>>
    /\ enc = <<>>
    /\ feed = FromEncoder
    /\ wire = <<>>
    /\ dec = DecodeResponseIter_new(ZeroHash, 0, <<>>)
    /\ rets = <<>>

\* the outboard of one backend over the output of the post-order builder
BackendOf(b, built, blob, bs) ==
    CASE b = "PostOrder" -> PostOrderOutboard_new(built.hash, bs, built.out)
      [] b = "PostOrderMem" -> PostOrderMemOutboard_new(built.hash, built.out, bs)
      [] OTHER -> write_outboard_from_mem(
                      blob, PreOrderOutboard_new(built.hash, bs,
                                EmptyPreOrderFile(BaoTree(Len(blob), bs)))).ob

\* the root hash and the outboards kept of what the builder returned
Built(built) ==
    /\ root_hash' = built.hash
    /\ obs' = [b \in Backends |-> BackendOf(b, built, data, block_size)]

\* build the root hash and the outboards from the blob
Build ==
    /\ phase = "new"
    /\ Built(outboard_post_order(data, Len(data), block_size))
    /\ phase' = "built"
    /\ UNCHANGED <<data, block_size, ranges, enc, feed, wire, dec, rets>>

\* the encoders
Variants == {"sync", "io"}

EncodeWith(v, blob, ob, rs, failAt, fault) ==
    CASE v = "io" -> io_encode_ranges(blob, ob, rs, failAt, fault)
      [] v = "sync_validated" -> encode_ranges_validated(blob, ob, rs, failAt, fault)
      [] v = "io_validated" -> io_encode_ranges_validated(blob, ob, rs, failAt, fault)
      [] OTHER -> encode_ranges(blob, ob, rs, failAt, fault)

\* the record kept of one encoder call
EncCallOf(v, b, run, failAt, fault, corrupt) ==
    [variant |-> v, backend |-> b, run |-> run, failAt |-> failAt, fault |-> fault,
     corrupt |-> corrupt]

\* an encoder call that nothing disturbed
EncCall(v, b, run) == EncCallOf(v, b, run, 0, NoFault, NoTamper)

\* the slice of a finished encoder call goes on the wire
Encoded(v, b, run) ==
    /\ enc' = << EncCall(v, b, run) >>
    /\ wire' = run.out
    /\ phase' = IF run.err = NoErr THEN "decode" ELSE "failed"

\* encode the ranges of a request from one backend and hand the slice to a decoder
Encode(v, b, rs) ==
    /\ phase = "built"
    /\ Encoded(v, b, EncodeWith(v, data, obs[b], rs, 0, NoFault))
    /\ ranges' = rs
    /\ feed' = FromEncoder
    /\ dec' = DecodeResponseIter_new(root_hash, block_size, rs)
    /\ rets' = <<>>
    /\ UNCHANGED <<data, block_size, root_hash, obs>>

Last(s) == s[Len(s)]

\* the decoder is done when a call returned None or panicked
Finished == rets # <<>> /\ Last(rets).tag \in {"None", "Panic"}

\* the calls made to one decoder: enough for every directive of the largest blob
MaxCalls == 2 * MaxChunks + 2

\* the decoder and the value a call left
Returned(r) ==
    /\ dec' = r.dec
    /\ rets' = Append(rets, r.ret)

\* one call of DecodeResponseIter::next
DecodeNext ==
    /\ phase = "decode"
    /\ dec.api = "Response"
    /\ ~Finished
    /\ Len(rets) < MaxCalls
    /\ Returned(DecodeResponseIter_next(dec, wire))
    /\ UNCHANGED <<phase, data, block_size, root_hash, obs, ranges, enc, feed, wire>>

(***************************************************************************)
(* The peer of a decoder.  Besides the slice of an encoder, the decoder    *)
(* may be handed the answer of a peer that sends, for each directive the   *)
(* decoder will walk, what the blob's tree holds at that place; and any of *)
(* these streams changed on its way.                                       *)
(***************************************************************************)
\* the chunks left of the split of a subtree of n chunks
LeftChunks(n) == NextPowerOfTwo(n) \div 2

SpanBytes(blob, s, n) ==
    SubSeq(blob, Min(s * ChunkBytes, Len(blob)) + 1,
                 Min(s * ChunkBytes + n, Len(blob)))

\* the answer to one directive; spans is the stack of the subtrees (start
\* chunk, bytes) whose hashes the decoder holds
AnswerStep(run, blob, d) ==
    IF d.kind = "Leaf"
    THEN [spans |-> IF run.spans = <<>> THEN <<>> ELSE Pop(run.spans),
          out |-> Append(run.out, BytesField(SpanBytes(blob, d.start_chunk, d.size)))]
    ELSE IF run.spans = <<>> \/ ByteChunks(Top(run.spans)[2]) <= 1
    THEN [spans |-> <<>>,
          out |-> run.out \o << HashField(ZeroHash), HashField(ZeroHash) >>]
    ELSE
      LET s == Top(run.spans)[1]
          n == Top(run.spans)[2]
          lc == LeftChunks(ByteChunks(n))
          lb == lc * ChunkBytes
      IN  [spans |-> (Pop(run.spans)
                        \o (IF d.right THEN << <<s + lc, n - lb>> >> ELSE <<>>))
                        \o (IF d.left THEN << <<s, lb>> >> ELSE <<>>),
           out |-> run.out \o
                   << HashField(hash_subtree(s, SpanBytes(blob, s, lb), FALSE)),
                      HashField(hash_subtree(s + lc, SpanBytes(blob, s + lc, n - lb),
                                             FALSE)) >>]

RECURSIVE AnswerRun(_, _, _)
AnswerRun(run, blob, dirs) ==
    IF dirs = <<>> THEN run
    ELSE AnswerRun(AnswerStep(run, blob, Head(dirs)), blob, Tail(dirs))

\* the directives a decoder walks for a blob size, block size and ranges
DecoderDirs(size, bs, rs) ==
    ResponseIterRef_collect(
        ResponseIterRef_new(BaoTree(size, bs), truncate_ranges(rs, size), 0))

AnswerWire(blob, bs, rs) ==
    AnswerRun([spans |-> << <<0, Len(blob)>> >>, out |-> << HeaderField(Len(blob)) >>],
              blob, DecoderDirs(Len(blob), bs, rs)).out

\* the changes that can be made to a stream
Tampers(w) ==
    {[kind |-> "flip", k |-> k, j |-> 1] : k \in {i \in 2..Len(w) : w[i].tag = "hash"}}
    \cup UNION {{[kind |-> "flip", k |-> k, j |-> j] : j \in 1..Len(w[k].bytes)} :
                   k \in {i \in 2..Len(w) : w[i].tag = "bytes" /\ w[i].bytes # <<>>}}
    \cup {[kind |-> "cut", k |-> k, j |-> 0] : k \in 0..(Len(w) - 1)}
    \cup {[kind |-> "size", k |-> n, j |-> 0] :
             n \in ({from_le_bytes(w[1].bytes) - 1, from_le_bytes(w[1].bytes) + 1}
                      \ {-1})}

\* one byte changed
FlipByte(b) == (b + 1) % 256

FlipField(f, j) ==
    IF f.tag = "hash" THEN HashField(FlipHash(f.hash))
    ELSE BytesField([f.bytes EXCEPT ![j] = FlipByte(f.bytes[j])])

Tampered(w, t) ==
    CASE t.kind = "flip" -> [w EXCEPT ![t.k] = FlipField(w[t.k], t.j)]
      [] t.kind = "cut" -> SubSeq(w, 1, t.k)
      [] t.kind = "size" -> [w EXCEPT ![1] = HeaderField(t.k)]
      [] OTHER -> w

\* the changes made on the way, if any
OnTheWay(base, changed) == IF changed THEN Tampers(base) ELSE {NoTamper}

\* the stream base of a source goes on the wire, changed by one of ts
Sent(base, src, ts) ==
    \E t \in ts :
       /\ wire' = Tampered(base, t)
       /\ feed' = [src |-> src, tamper |-> t]

\* the stream of the source: the answer of the peer or the slice of the run
BaseOf(run, src, rs) ==
    IF src = "answer" THEN AnswerWire(data, block_size, rs) ELSE run.out

\* the stream base of the source is sent, changed on its way or not
SentFrom(base, src, changed) == Sent(base, src, OnTheWay(base, changed))

\* the encoder call is kept and the stream of the source is sent
Served(run, src, changed, rs) ==
    /\ enc' = << EncCall("sync", "PreOrder", run) >>
    /\ SentFrom(BaseOf(run, src, rs), src, changed)

\* hand a decoder the stream of a source, changed on its way or not
Serve(rs, src, changed) ==
    /\ phase = "built"
    /\ Served(encode_ranges(data, obs["PreOrder"], rs, 0, NoFault), src, changed, rs)
    /\ phase' = "decode"
    /\ ranges' = rs
    /\ dec' = DecodeResponseIter_new(root_hash, block_size, rs)
    /\ rets' = <<>>
    /\ UNCHANGED <<data, block_size, root_hash, obs>>

\* the changes made to a slice on its way: a byte changed or the end cut off
SliceOnTheWay(w, changed) ==
    IF changed THEN {c \in Tampers(w) : c.kind \in {"flip", "cut"}} ELSE {NoTamper}

\* the slice of a run of the io encoder that did not fail goes on the wire
ServedSlice(run, changed) ==
    /\ run.err = NoErr
    /\ enc' = << EncCall("io", "PreOrder", run) >>
    /\ Sent(run.out, "encoded", SliceOnTheWay(run.out, changed))

\* hand a DecodeSliceIter the slice of the io encoder, whole, or with a byte
\* changed or the end cut off on its way
ServeSlice(rs, changed) ==
    /\ phase = "built"
    /\ ServedSlice(io_encode_ranges(data, obs["PreOrder"], rs, 0, NoFault), changed)
    /\ phase' = "decode"
    /\ ranges' = rs
    /\ dec' = DecodeSliceIter_new(root_hash, block_size, rs)
    /\ rets' = <<>>
    /\ UNCHANGED <<data, block_size, root_hash, obs>>

\* one call of DecodeSliceIter::next
SliceNext ==
    /\ phase = "decode"
    /\ dec.api = "Slice"
    /\ ~Finished
    /\ Len(rets) < MaxCalls
    /\ Returned(DecodeSliceIter_next(dec, wire))
    /\ UNCHANGED <<phase, data, block_size, root_hash, obs, ranges, enc, feed, wire>>

Next ==
    \/ Build
    \/ \E v \in Variants : \E b \in Backends : \E rs \in ChunkRangesSet : Encode(v, b, rs)
    \/ DecodeNext

Spec == Init /\ [][Next]_vars

(***************************************************************************)
(* What the claims speak about.                                            *)
(***************************************************************************)
\* the encoder call that produced the stream
TheCall == enc[1]

\* the full chunk range: all chunks from 0, open ended or closed at or past the end
FullRange ==
    \/ ranges = <<0>>
    \/ Len(ranges) = 2 /\ ranges[1] = 0 /\ ranges[2] >= ByteChunks(Len(data))

\* the requested ranges are closed and end within the blob's chunks
RangesWithinBlob ==
    Len(ranges) % 2 = 0 /\ (ranges # <<>> => ranges[Len(ranges)] <= ByteChunks(Len(data)))

IsLeafItem(r) == r.tag = "Item" /\ r.kind = "Leaf"

IsParentItem(r) == r.tag = "Item" /\ r.kind = "Parent"

\* the calls whose Leaf item holds the blob byte at offset i
LeafCallsAt(i) ==
    {k \in 1..Len(rets) : IsLeafItem(rets[k])
                          /\ rets[k].a <= i /\ i < rets[k].a + Len(rets[k].data)}

\* the emitted leaves carry the blob's own bytes at their offsets
LeavesAreBlobBytes ==
    \A k \in 1..Len(rets) :
        IsLeafItem(rets[k]) =>
            /\ rets[k].a + Len(rets[k].data) <= Len(data)
            /\ \A j \in 1..Len(rets[k].data) : rets[k].data[j] = data[rets[k].a + j]

\* every byte of the blob is in exactly one emitted leaf
EveryByteOnce == \A i \in 0..(Len(data) - 1) : Cardinality(LeafCallsAt(i)) = 1

NoFailure == \A k \in 1..Len(rets) : rets[k].tag \in {"Item", "None"}

EndedClean == Finished /\ NoFailure

\* a directive as the claims compare it: kind, flags, start chunk, size
DirView(d) ==
    IF d.kind = "Parent"
    THEN <<0, IF d.is_root THEN 1 ELSE 0, IF d.left THEN 1 ELSE 0,
           IF d.right THEN 1 ELSE 0>>
    ELSE <<1, IF d.is_root THEN 1 ELSE 0, d.start_chunk, d.size>>

\* the calls in which the decoder took a directive from its iterator
Walked(r) == r.kind \notin {"Header", "NotFound", "None"}

DecDirs == LET w == SelectSeq(rets, Walked) IN [i \in 1..Len(w) |-> w[i].dir]

(***************************************************************************)
(* C1: round trip.  Building outboard and root hash with the post-order    *)
(* builder, encoding the full chunk range with encode_ranges and decoding  *)
(* the slice against the root hash and the full range ends without error,  *)
(* and the Leaf items, placed at their offsets, are the blob: every byte   *)
(* exactly once.                                                           *)
(***************************************************************************)
C1_RoundTrip ==
    (phase = "decode" /\ Finished /\ FullRange /\ TheCall.variant = "sync"
        /\ TheCall.backend \in {"PostOrder", "PostOrderMem"})
    => (NoFailure /\ LeavesAreBlobBytes /\ EveryByteOnce)

\* the round trip over the backends whose load reads the pairs where they were written
RoundTripAlignedBackends ==
    (phase = "decode" /\ Finished /\ FullRange /\ TheCall.backend # "PostOrder")
    => (NoFailure /\ LeavesAreBlobBytes /\ EveryByteOnce)

(***************************************************************************)
(* C4: for the same tree and ranges, the directives the encoder walks      *)
(* (pre-order chunk iterator, max_skip_level 0) are the directives the     *)
(* decoder walks through ResponseIterRef: same kinds, start chunks, sizes, *)
(* is_root and left/right flags, in the same order, for every block size.  *)
(***************************************************************************)
C4_SameDirectives ==
    (phase = "decode" /\ TheCall.variant = "sync" /\ RangesWithinBlob)
    => /\ Len(DecDirs) <= Len(TheCall.run.dirs)
       /\ \A i \in 1..Len(DecDirs) : DirView(DecDirs[i]) = DirView(TheCall.run.dirs[i])
       /\ (Finished /\ Last(rets).tag = "None"
             => Len(DecDirs) = Len(TheCall.run.dirs))

\* the same, for block size 0 only
SameDirectivesBlockSize0 == block_size = 0 => C4_SameDirectives

(***************************************************************************)
(* C9: the slice is the 8-byte little-endian size, then for each directive *)
(* of the pre-order traversal for the ranges, in order, the pair           *)
(* left || right loaded from the outboard (Parent) or the `size` bytes of  *)
(* the blob at start_chunk * ChunkBytes (Leaf), and nothing else; its      *)
(* length is 8 + 64 * parents + the sum of the leaf sizes.                 *)
(***************************************************************************)
TraversalFor(tree, rs) == PreOrderChunkIterRef_collect(PreOrderChunkIterRef_new(tree, rs, 0))

ExpectedFields(ob, d) ==
    IF d.kind = "Parent"
    THEN << [tag |-> "hash", hash |-> Outboard_load(ob, d.node).pair[1], bytes |-> <<>>],
            [tag |-> "hash", hash |-> Outboard_load(ob, d.node).pair[2], bytes |-> <<>>] >>
    ELSE << [tag |-> "bytes", hash |-> ZeroHash,
             bytes |-> [j \in 1..d.size |-> data[d.start_chunk * ChunkBytes + j]]] >>

ExpectedSlice(ob, rs) ==
    << [tag |-> "bytes", hash |-> ZeroHash, bytes |-> to_le_bytes(Len(data), 8)] >>
       \o Flatten(MapSeq(TraversalFor(ob.tree, rs), LAMBDA d : ExpectedFields(ob, d)))

ExpectedLength(tree, rs) ==
    LET t == TraversalFor(tree, rs)
    IN  8 + 64 * Len(SelectSeq(t, LAMBDA d : d.kind = "Parent"))
          + SumSeq(MapSeq(SelectSeq(t, LAMBDA d : d.kind = "Leaf"), LAMBDA d : d.size))

C9_SliceFormat ==
    phase = "decode"
    => /\ wire = ExpectedSlice(obs[TheCall.backend], ranges)
       /\ FileLen(wire) = ExpectedLength(obs[TheCall.backend].tree, ranges)
       /\ from_le_bytes(ReadBytesAt(wire, 0, 8).bytes) = Len(data)

\* a slice of a partial request with a pair and leaf data behind the header
C9_Witness ==
    /\ phase = "decode"
    /\ ~FullRange
    /\ \E k \in 2..Len(wire) : wire[k].tag = "hash"
    /\ \E k \in 2..Len(wire) : wire[k].tag = "bytes" /\ wire[k].bytes # <<>>
    /\ FileLen(wire) < 8 + Len(data) + 64 * (blocks(obs[TheCall.backend].tree) - 1)

(***************************************************************************)
(* The decoder before its peers: the slice of an encoder or the answer of  *)
(* a peer, unchanged (SpecServe), and the answer of a peer changed on its  *)
(* way (SpecTamper).                                                       *)
(***************************************************************************)
NextServe ==
    \/ Build
    \/ \E rs \in ChunkRangesSet : \E src \in {"encoded", "answer"} : Serve(rs, src, FALSE)
    \/ DecodeNext

SpecServe == Init /\ [][NextServe]_vars

NextTamper ==
    \/ Build
    \/ \E rs \in ChunkRangesSet : Serve(rs, "answer", TRUE)
    \/ \E rs \in ChunkRangesSet : ServeSlice(rs, TRUE)
    \/ DecodeNext
    \/ SliceNext

SpecTamper == Init /\ [][NextTamper]_vars

\* the answer of a peer is accepted whole
AnswerDecodesClean ==
    (phase = "decode" /\ feed.src = "answer" /\ feed.tamper = NoTamper /\ Finished)
    => (NoFailure /\ dec.rd = FileLen(wire))

(***************************************************************************)
(* C2: every Leaf item the decoder emits is authenticated: its data hashes *)
(* (hash_subtree with the directive's start_chunk and is_root) to the root *)
(* hash or to a child hash of a parent pair that was verified the same     *)
(* way; so an emitted Leaf carries the blob's own bytes at its offset,     *)
(* whatever bytes the stream contains.                                     *)
(***************************************************************************)
\* the hash an emitted item was verified against
VerifiedHash(r) ==
    IF r.kind = "Parent" THEN parent_cv(r.pair[1], r.pair[2], r.dir.is_root)
    ELSE hash_subtree(r.dir.start_chunk, r.data, r.dir.is_root)

\* the hash comes from the root hash or from an earlier emitted pair
Vouched(k) ==
    \/ VerifiedHash(rets[k]) = root_hash
    \/ \E i \in 1..(k - 1) :
          /\ IsParentItem(rets[i])
          /\ \/ VerifiedHash(rets[k]) = rets[i].pair[1]
             \/ VerifiedHash(rets[k]) = rets[i].pair[2]

C2_LeafAuthenticated ==
    (phase = "decode" /\ dec.api = "Response")
    => /\ \A k \in 1..Len(rets) :
             (IsLeafItem(rets[k]) \/ IsParentItem(rets[k])) => Vouched(k)
       /\ LeavesAreBlobBytes

\* a changed stream of which a leaf was emitted before the decoder met the change
C2_Witness ==
    /\ phase = "decode"
    /\ dec.api = "Response"
    /\ feed.tamper.kind = "flip"
    /\ \E k \in 1..Len(rets) : IsLeafItem(rets[k]) /\ rets[k].data # <<>>
    /\ \E k \in 1..Len(rets) : rets[k].tag = "Err" /\ rets[k].kind = "LeafHashMismatch"

(***************************************************************************)
(* C3: tamper detection.  For a valid slice, a change of any byte behind   *)
(* the header makes decoding fail: with ParentHashMismatch naming the      *)
(* parent whose pair was changed (the root parent for the root pair), or   *)
(* with LeafHashMismatch naming the start chunk of the leaf whose data was *)
(* changed; and the changed pair or data is never emitted as an item.      *)
(* C3_TamperNamesParent states it so.  C3_TamperDetected states what the   *)
(* decoders do: the error carries the node of the directive, which         *)
(* DecodeResponseIter does not have for a parent inside a partly requested *)
(* block.                                                                  *)
(***************************************************************************)
FieldsOf(d) == IF d.kind = "Parent" THEN 2 ELSE 1

\* the number of stream fields up to and including directive i (the header is 1)
RECURSIVE FieldsUpTo(_, _)
FieldsUpTo(dirs, i) == IF i = 0 THEN 1 ELSE FieldsUpTo(dirs, i - 1) + FieldsOf(dirs[i])

\* the directive that field k of the stream belongs to
OwnerOf(dirs, k) == CHOOSE i \in 1..Len(dirs) :
                        FieldsUpTo(dirs, i - 1) < k /\ k <= FieldsUpTo(dirs, i)

\* the directives the decoder at hand walks for the request
WalkedDirs ==
    IF dec.api = "Slice"
    THEN PreOrderChunkIterRef_collect(
             PreOrderChunkIterRef_new(BaoTree(Len(data), block_size), ranges, 0))
    ELSE DecoderDirs(Len(data), block_size, ranges)

\* the error of the kind of directive d that carries what d carries
ReportsDirective(r, d) ==
    /\ r.tag = "Err"
    /\ IF d.kind = "Parent"
       THEN /\ r.kind = "ParentHashMismatch"
            /\ r.a = d.node
            /\ (d.is_root /\ d.node # None)
                  => r.a = root(BaoTree(Len(data), block_size))
       ELSE r.kind = "LeafHashMismatch" /\ r.a = d.start_chunk

\* the error that names directive d: a parent by its node in the tree
NamesDirective(r, d) ==
    /\ ReportsDirective(r, d)
    /\ d.kind = "Parent" => r.a \in TreeNodes(BaoTree(Len(data), block_size))

\* the calls that were the first not to return an item
FirstFailures ==
    {m \in 1..Len(rets) : rets[m].tag # "Item" /\ \A n \in 1..(m - 1) : rets[n].tag = "Item"}

\* no emitted item holds the field as it was changed
ChangedNotEmitted(k) ==
    /\ \A m \in 1..Len(rets) :
          (IsParentItem(rets[m]) /\ wire[k].tag = "hash")
             => (rets[m].pair[1] # wire[k].hash /\ rets[m].pair[2] # wire[k].hash)
    /\ LeavesAreBlobBytes

\* a valid slice with one byte behind the header changed is being decoded
ChangedSlice ==
    /\ phase = "decode"
    /\ feed.tamper.kind = "flip"
    /\ feed.src = "answer" \/ dec.api = "Slice"

\* DecodeResponseIter fails in the call that walks directive i, not before
FailsAtDirective(i) ==
    dec.api = "Response"
    => /\ \A m \in 1..Min(Len(rets), i) : rets[m].tag = "Item"
       /\ Len(rets) > i => rets[i + 1].tag = "Err"

SliceReportsParent ==
    /\ phase = "decode"
    /\ dec.api = "Slice"
    /\ feed.tamper.kind = "flip"
    /\ \E m \in 1..Len(rets) : rets[m].tag = "Err" /\ rets[m].kind = "ParentHashMismatch"
                                /\ rets[m].a # None

(***************************************************************************)
(* C5: after next has returned an error, every later call returns None:    *)
(* no further item or error is produced, and no call panics.               *)
(***************************************************************************)
C5_ErrorIsFinal ==
    dec.api = "Response" =>
    \A i \in 1..Len(rets) : \A j \in 1..Len(rets) :
        (i < j /\ rets[i].tag = "Err") => rets[j].tag = "None"

(***************************************************************************)
(* C6: range fidelity.  For any block size and ranges within the blob's    *)
(* chunks, the union of the chunk intervals of the emitted Leaf items is   *)
(* exactly the set of requested chunks.                                    *)
(***************************************************************************)
\* the chunks of a Leaf item (the leaf of an empty blob has none)
LeafChunksOf(r) ==
    {c \in 0..MaxChunks : r.a <= c * ChunkBytes /\ c * ChunkBytes < r.a + Len(r.data)}

EmittedChunks == UNION {LeafChunksOf(rets[k]) : k \in {m \in 1..Len(rets) : IsLeafItem(rets[m])}}

RequestedChunks == RangeChunks(ranges, ByteChunks(Len(data)))

C6_RangeFidelity ==
    (phase = "decode" /\ feed.src = "answer" /\ Finished /\ RangesWithinBlob)
    => EmittedChunks = RequestedChunks

\* the same, for block size 0 only
RangeFidelityBlockSize0 == block_size = 0 => C6_RangeFidelity

(***************************************************************************)
(* C7: the decoder emits Leaf items in strictly increasing start_chunk     *)
(* order, and every emitted Leaf overlaps the requested ranges.            *)
(***************************************************************************)
LeavesIncreasing ==
    \A i \in 1..Len(rets) : \A j \in 1..Len(rets) :
        (i < j /\ IsLeafItem(rets[i]) /\ IsLeafItem(rets[j])) => rets[i].a < rets[j].a

\* a leaf overlaps the ranges when one of its chunks is requested (the leaf of
\* an empty blob: when chunk 0 is)
LeafOverlaps(r) ==
    \E c \in (LeafChunksOf(r) \cup {r.dir.start_chunk}) : RangeContains(ranges, c)

C7_LeavesOrderedInRanges ==
    (phase = "decode" /\ RangesWithinBlob)
    => /\ LeavesIncreasing
       /\ \A k \in 1..Len(rets) : IsLeafItem(rets[k]) => LeafOverlaps(rets[k])

(***************************************************************************)
(* The same request encoded from several backends (SpecBackends).          *)
(***************************************************************************)
\* the call of one more backend is kept, its slice on the wire
EncodedFrom(b, run) ==
    /\ enc' = Append(enc, EncCall("sync", b, run))
    /\ wire' = run.out

\* encode the ranges of the request, chosen by the first call, from one more backend
EncodeBackend(b, rs) ==
    /\ phase \in {"built", "encoded"}
    /\ \A i \in 1..Len(enc) : enc[i].backend # b
    /\ enc # <<>> => rs = ranges
    /\ EncodedFrom(b, encode_ranges(data, obs[b], rs, 0, NoFault))
    /\ phase' = "encoded"
    /\ ranges' = rs
    /\ UNCHANGED <<data, block_size, root_hash, obs, feed, dec, rets>>

NextBackends ==
    \/ Build
    \/ \E b \in Backends : \E rs \in ChunkRangesSet : EncodeBackend(b, rs)

SpecBackends == Init /\ [][NextBackends]_vars

(***************************************************************************)
(* C8: determinism across backends.  For the same blob and ranges,         *)
(* encode_ranges writes byte-identical output from the pre-order backend   *)
(* and from the post-order backend, both holding the hashes built from     *)
(* the blob.                                                               *)
(***************************************************************************)
C8_BackendsAgree ==
    phase = "encoded"
    => \A i \in 1..Len(enc) : \A j \in 1..Len(enc) :
          ({enc[i].backend, enc[j].backend} = {"PreOrder", "PostOrder"})
             => /\ enc[i].run.err = enc[j].run.err
                /\ enc[i].run.out = enc[j].run.out

\* the pre-order backend and the post-order backend that keeps the pairs in memory
AlignedBackendsAgree ==
    phase = "encoded"
    => \A i \in 1..Len(enc) : \A j \in 1..Len(enc) :
          ({enc[i].backend, enc[j].backend} = {"PreOrder", "PostOrderMem"})
             => /\ enc[i].run.err = enc[j].run.err
                /\ enc[i].run.out = enc[j].run.out

(***************************************************************************)
(* Encoding under failure (SpecEncode): one directive meets a read error   *)
(* or a writer error, or the blob or the outboard was changed after the    *)
(* outboard was built, so that a validating encoder meets a mismatch.      *)
(***************************************************************************)
AllVariants == {"sync", "io", "sync_validated", "io_validated"}

\* the faults of one directive: a read error, or a writer error after k bytes
Faults ==
    {[kind |-> "read", k |-> 0]}
    \cup {[kind |-> "write", k |-> k] : k \in {0, HashLen}}

\* the changes to the stored blob and outboard: byte k of the blob, or hash k
\* of the outboard file
Corruptions(blob, ob) ==
    {[kind |-> "blob", k |-> k, j |-> 0] : k \in 1..Len(blob)}
    \cup {[kind |-> "outboard", k |-> k, j |-> 0] :
            k \in {i \in 1..Len(ob.data) : ob.data[i].tag = "hash"}}

CorruptBlob(blob, c) ==
    IF c.kind = "blob" THEN [blob EXCEPT ![c.k] = FlipByte(blob[c.k])] ELSE blob

CorruptOutboard(ob, c) ==
    IF c.kind = "outboard"
    THEN [ob EXCEPT !.data = [ob.data EXCEPT ![c.k] = FlipField(ob.data[c.k], 1)]]
    ELSE ob

\* what can disturb the encoder call of a request that walks n directives:
\* nothing, a fault at one directive, or a changed blob or outboard
Disturbances(n, blob, ob) ==
    {[failAt |-> 0, fault |-> NoFault, corrupt |-> NoTamper]}
    \cup {[failAt |-> i, fault |-> f, corrupt |-> NoTamper] : i \in 1..n, f \in Faults}
    \cup {[failAt |-> 0, fault |-> NoFault, corrupt |-> c] : c \in Corruptions(blob, ob)}

\* the disturbed call and the clean call are kept, the disturbed slice on the wire
BothKept(v, d, run, clean) ==
    /\ enc' = << EncCallOf(v, "PreOrder", run, d.failAt, d.fault, d.corrupt),
                 EncCall(v, "PreOrder", clean) >>
    /\ wire' = run.out

\* the call is made again, disturbed by one of the disturbances of the clean run
DisturbedAndClean(v, rs, clean) ==
    \E d \in Disturbances(Len(clean.dirs), data, obs["PreOrder"]) :
       BothKept(v, d,
                EncodeWith(v, CorruptBlob(data, d.corrupt),
                           CorruptOutboard(obs["PreOrder"], d.corrupt),
                           rs, d.failAt, d.fault),
                clean)

\* encode a request twice: disturbed, and with nothing disturbed
EncodeDisturbed(v, rs) ==
    /\ phase = "built"
    /\ DisturbedAndClean(v, rs, EncodeWith(v, data, obs["PreOrder"], rs, 0, NoFault))
    /\ phase' = "encoded"
    /\ ranges' = rs
    /\ UNCHANGED <<data, block_size, root_hash, obs, feed, dec, rets>>

NextEncode ==
    \/ Build
    \/ \E v \in AllVariants : \E rs \in ChunkRangesSet : EncodeDisturbed(v, rs)

SpecEncode == Init /\ [][NextEncode]_vars

(***************************************************************************)
(* C10: when an encode fails at some directive, the bytes written so far   *)
(* are exactly the header and the encodings of the directives before the   *)
(* failing one, a prefix of the output of a successful run; a pair or leaf *)
(* data that failed validation is not written; nothing is written after    *)
(* the error.                                                              *)
(***************************************************************************)
\* the same call with nothing disturbed
CleanRun == enc[2].run

\* the call failed at a directive
FailedAtDirective ==
    /\ phase = "encoded"
    /\ TheCall.run.err # NoErr
    /\ TheCall.run.dirs # <<>>

\* the number of fields a successful run has written before directive n
FieldsBefore(n) == IF n = 1 THEN 1 ELSE CleanRun.ends[n - 1]

\* as the claim states it: nothing of the failing directive is written
C10_ExactPrefix ==
    FailedAtDirective
    => /\ TheCall.run.extra = 0
       /\ TheCall.run.out = SubSeq(CleanRun.out, 1, FieldsBefore(Len(TheCall.run.dirs)))

\* a failed writer may have taken a part of the failing directive's encoding:
\* what is written is still a proper prefix of the successful output that
\* holds every earlier directive whole; after a read error or a mismatch
\* nothing of the failing directive is written
C10_PrefixUpToFailingWrite ==
    FailedAtDirective
    => LET run == TheCall.run
           n == Len(run.dirs)
           w == Len(run.out)
       IN  /\ run.out = SubSeq(CleanRun.out, 1, w)
           /\ w >= FieldsBefore(n)
           /\ n <= Len(CleanRun.ends) => w < CleanRun.ends[n]
           /\ run.extra > 0
                => /\ run.part # <<>>
                   /\ run.extra < FileLen(run.part)
                   /\ run.part = SubSeq(CleanRun.out, w + 1, w + Len(run.part))
           /\ TheCall.fault.kind # "write" => (run.extra = 0 /\ w = FieldsBefore(n))

\* a validating encoder met a changed pair below the root and stopped
C10_Witness ==
    /\ FailedAtDirective
    /\ TheCall.run.err.kind = "ParentHashMismatch"
    /\ Len(TheCall.run.dirs) > 1
    /\ Len(TheCall.run.out) > 1

\* a writer failed between the two hashes of a pair: the first is written
C10_PartialWrite ==
    /\ FailedAtDirective
    /\ TheCall.variant = "io_validated"
    /\ TheCall.fault.kind = "write"
    /\ Len(TheCall.run.out) > FieldsBefore(Len(TheCall.run.dirs))

(***************************************************************************)
(* The four encoder entry points on one input (SpecEntry): the outboard    *)
(* built from the blob, a range set, and a blob that is the one the        *)
(* outboard was built from, or one byte shorter, or one byte longer.       *)
(***************************************************************************)
EntryPoints == << "sync", "sync_validated", "io", "io_validated" >>

\* the blobs handed to the encoders with the outboard of `blob`
GivenBlobs(blob) ==
    {blob, Append(blob, BlobByte(0, Len(blob)))}
    \cup (IF blob = <<>> THEN {} ELSE {SubSeq(blob, 1, Len(blob) - 1)})

\* the length of the blob a call was given
GivenLength(blob) == [kind |-> "length", k |-> Len(blob), j |-> 0]

\* the call of one entry point
EntryCall(v, blob, rs) ==
    EncCallOf(v, "PreOrder", EncodeWith(v, blob, obs["PreOrder"], rs, 0, NoFault),
              0, NoFault, GivenLength(blob))

\* call every entry point with the same blob, outboard and ranges
EncodeEntry(rs, blob) ==
    /\ phase = "built"
    /\ enc' = [i \in 1..Len(EntryPoints) |-> EntryCall(EntryPoints[i], blob, rs)]
    /\ phase' = "encoded"
    /\ ranges' = rs
    /\ UNCHANGED <<data, block_size, root_hash, obs, feed, wire, dec, rets>>

NextEntry ==
    \/ Build
    \/ \E rs \in ChunkRangesSet : \E blob \in GivenBlobs(data) : EncodeEntry(rs, blob)

SpecEntry == Init /\ [][NextEntry]_vars

\* the call of entry point v
CallOf(v) == enc[CHOOSE i \in 1..Len(enc) : enc[i].variant = v]

\* the entry points were called with the blob the outboard was built from
GivenConsistent == phase = "encoded" /\ TheCall.corrupt.k = Len(data)

\* the entry points were called with a blob of another length than the tree's
GivenOtherLength == phase = "encoded" /\ TheCall.corrupt.k # Len(data)

\* a call failed before it wrote anything
FailedUnwritten(c, kind) ==
    /\ c.run.err.kind = kind
    /\ c.run.out = <<>>
    /\ c.run.extra = 0

(***************************************************************************)
(* C11: for a blob and an outboard that are consistent with each other,    *)
(* encode_ranges_validated writes byte for byte the same slice as          *)
(* encode_ranges for the same ranges, for every block size and every range *)
(* set, also ranges that cover part of a block or reach past the end.      *)
(***************************************************************************)
C11_ValidatedSameSlice ==
    GivenConsistent
    => /\ CallOf("sync_validated").run.err = NoErr
       /\ CallOf("sync").run.err = NoErr
       /\ CallOf("sync_validated").run.out = CallOf("sync").run.out

\* with blocks of one chunk, and ranges that truncate_ranges leaves as they
\* are, the two encoders write the same slice
ValidatedSameSliceBlockSize0 ==
    (GivenConsistent /\ block_size = 0 /\ truncate_ranges(ranges, Len(data)) = ranges)
    => /\ CallOf("sync_validated").run.err = NoErr
       /\ CallOf("sync_validated").run.out = CallOf("sync").run.out

\* the validating encoder of io.rs, which does not cut a block down to the
\* requested chunks, writes what encode_ranges of io.rs writes
IoValidatedSameSlice ==
    GivenConsistent
    => /\ CallOf("io_validated").run.err = CallOf("io").run.err
       /\ CallOf("io_validated").run.out = CallOf("io").run.out

(***************************************************************************)
(* C12: every encoder entry point compares the blob length with the size   *)
(* of the outboard's tree before writing and, when they differ, fails with *)
(* Io(InvalidInput) without having written any byte, not even the header.  *)
(***************************************************************************)
C12_LengthChecked ==
    GivenOtherLength
    => \A i \in 1..Len(enc) : FailedUnwritten(enc[i], "Io")

\* the entry points of io.rs make the comparison
IoLengthChecked ==
    GivenOtherLength
    => /\ FailedUnwritten(CallOf("io"), "Io")
       /\ FailedUnwritten(CallOf("io_validated"), "Io")

(***************************************************************************)
(* C13: every encoder entry point fails with InvalidQueryRange, before     *)
(* writing the header, when the requested ranges do not lie within         *)
(* [0, tree.chunks()).                                                     *)
(***************************************************************************)
RangesOutside == GivenConsistent /\ ~range_ok(ranges, ByteChunks(Len(data)))

C13_RangesChecked ==
    RangesOutside
    => \A i \in 1..Len(enc) : FailedUnwritten(enc[i], "InvalidQueryRange")

\* the entry points of io.rs check the ranges
IoRangesChecked ==
    RangesOutside
    => /\ FailedUnwritten(CallOf("io"), "InvalidQueryRange")
       /\ FailedUnwritten(CallOf("io_validated"), "InvalidQueryRange")

(***************************************************************************)
(* The validators, valid_outboard_ranges and valid_file_ranges             *)
(* (io/sync.rs).  A validator run is [ok, res]: res is the set of chunks   *)
(* of the ranges added so far, ok is FALSE once a load or a read returned  *)
(* an I/O error, which ends the recursion with that error.                 *)
(***************************************************************************)
ValidatorStart == [ok |-> TRUE, res |-> {}]

\* ChunkRanges::from(start..end), as the set of its chunks
ChunkRange(start, end) == start..(end - 1)

\* a read_range that takes the end of the range for its length
read_range_to_end(blob, start, end) == ReadBlob(blob, start, end)

\* read_range(from, range, buf)
read_range(blob, start, end) == ReadBlob(blob, start, end - start)

\* the chunks of the bytes s..e of a leaf are added if the data hashes to expected
FileHalfRead(v, rd, s, e, expected, is_root) ==
    IF ~rd.ok THEN [v EXCEPT !.ok = FALSE]
    ELSE IF hash_subtree(ByteChunks(s), rd.bytes, is_root) = expected
    THEN [v EXCEPT !.res = v.res \cup ChunkRange(ByteChunks(s), ByteChunks(e))]
    ELSE v

FileHalf(v, blob, s, e, expected, is_root) ==
    IF ~v.ok THEN v
    ELSE FileHalfRead(v, read_range(blob, s, e), s, e, expected, is_root)

\* a persisted leaf: its left half against l_hash, then its right against r_hash
FileLeaf(v, blob, b, pair) ==
    FileHalf(FileHalf(v, blob, b.s, b.m, pair[1], FALSE), blob, b.m, b.e, pair[2], FALSE)

\* valid_file_ranges: RecursiveValidator::validate_rec
RECURSIVE file_validate_rec(_, _, _, _, _, _)
\* a validator that goes on below a pair that does not verify
FileLoaded_descends(v, ob, blob, parent_hash, node, is_root, ld) ==
    IF ~ld.ok THEN [v EXCEPT !.ok = FALSE]
    ELSE IF ld.some
    THEN IF is_leaf(node)
         THEN FileLeaf(v, blob, leaf_byte_ranges3(ob.tree, node), ld.pair)
         ELSE file_validate_rec(
                  file_validate_rec(v, ob, blob, ld.pair[1], left_child(node), FALSE),
                  ob, blob, ld.pair[2],
                  right_descendant(node, filled_size(ob.tree)), FALSE)
    ELSE IF is_leaf(node)
    THEN FileHalf(v, blob, leaf_byte_ranges3(ob.tree, node).s,
                  leaf_byte_ranges3(ob.tree, node).m, parent_hash, is_root)
    ELSE v

\* ld is what the outboard loaded for the node
FileLoaded(v, ob, blob, parent_hash, node, is_root, ld) ==
    IF ~ld.ok THEN [v EXCEPT !.ok = FALSE]
    ELSE IF ld.some
    THEN IF parent_cv(ld.pair[1], ld.pair[2], is_root) # parent_hash THEN v
         ELSE IF is_leaf(node)
         THEN FileLeaf(v, blob, leaf_byte_ranges3(ob.tree, node), ld.pair)
         ELSE file_validate_rec(
                  file_validate_rec(v, ob, blob, ld.pair[1], left_child(node), FALSE),
                  ob, blob, ld.pair[2],
                  right_descendant(node, filled_size(ob.tree)), FALSE)
    ELSE IF is_leaf(node)
    THEN FileHalf(v, blob, leaf_byte_ranges3(ob.tree, node).s,
                  leaf_byte_ranges3(ob.tree, node).m, parent_hash, is_root)
    ELSE v

file_validate_rec(v, ob, blob, parent_hash, node, is_root) ==
    IF ~v.ok THEN v
    ELSE FileLoaded(v, ob, blob, parent_hash, node, is_root, Outboard_load(ob, node))

\* valid_file_ranges(outboard, reader)
valid_file_ranges(ob, blob) ==
    file_validate_rec(ValidatorStart, ob, blob, ob.root, root(ob.tree), TRUE)

\* BaoTree::shifted: the root and the number of nodes of the tree of blocks.
\* The model numbers the nodes of a tree in blocks, so the shifted tree has
\* the numbers of the tree itself
shifted(tree) == [root |-> root(tree), filled_size |-> filled_size(tree)]

\* TreeNode::subtract_block_size(n): the node under which the outboard keeps
\* the pair of a shifted node; in the numbering by blocks it has the same number
subtract_block_size(node, n) == node

\* TreeNode::chunk_range
chunk_range(tree, node) ==
    [start |-> BlockChunks(tree, block_range(node).start),
     end |-> BlockChunks(tree, block_range(node).end)]

\* valid_outboard_ranges: RecursiveValidator::validate_rec
RECURSIVE outboard_validate_rec(_, _, _, _, _)
\* below a node whose pair verified, or that has none
OutboardBelow(v, ob, node, at, pair) ==
    IF is_leaf(at)
    THEN [v EXCEPT !.res = v.res \cup
             ChunkRange(chunk_range(ob.tree, node).start,
                        Min(chunk_range(ob.tree, node).start
                              + chunk_group_chunks(ob.tree) * 2,
                            chunks(ob.tree)))]
    ELSE outboard_validate_rec(
             outboard_validate_rec(v, ob, pair[1], left_child(at), FALSE),
             ob, pair[2], right_descendant(at, shifted(ob.tree).filled_size), FALSE)

\* a validator that returns an error when a pair does not verify
OutboardLoaded_failing(v, ob, parent_hash, at, is_root, node, ld) ==
    IF ~ld.ok THEN [v EXCEPT !.ok = FALSE]
    ELSE IF ld.some
    THEN IF parent_cv(ld.pair[1], ld.pair[2], is_root) # parent_hash
         THEN [v EXCEPT !.ok = FALSE]
         ELSE OutboardBelow(v, ob, node, at, ld.pair)
    ELSE OutboardBelow(v, ob, node, at, << parent_hash, ZeroHash >>)

\* ld is what the outboard loaded for the node of the shifted node `at`
OutboardLoaded(v, ob, parent_hash, at, is_root, node, ld) ==
    IF ~ld.ok THEN [v EXCEPT !.ok = FALSE]
    ELSE IF ld.some
    THEN IF parent_cv(ld.pair[1], ld.pair[2], is_root) # parent_hash THEN v
         ELSE OutboardBelow(v, ob, node, at, ld.pair)
    ELSE OutboardBelow(v, ob, node, at, << parent_hash, ZeroHash >>)

OutboardNode(v, ob, parent_hash, at, is_root, node) ==
    OutboardLoaded(v, ob, parent_hash, at, is_root, node, Outboard_load(ob, node))

outboard_validate_rec(v, ob, parent_hash, at, is_root) ==
    IF ~v.ok THEN v
    ELSE OutboardNode(v, ob, parent_hash, at, is_root,
                      subtract_block_size(at, ob.tree.block_size))

\* valid_outboard_ranges(outboard)
valid_outboard_ranges(ob) ==
    outboard_validate_rec(ValidatorStart, ob, ob.root, shifted(ob.tree).root, TRUE)

(***************************************************************************)
(* Validation (SpecValidate): both validators are run on the outboard of   *)
(* one backend and the blob as built, and again after one byte of the blob *)
(* or one hash of the outboard file was changed.                           *)
(***************************************************************************)
\* what the validators returned: for the changed input and for the input as built
ValidatorCall(b, c, ob, blob) ==
    [backend |-> b, corrupt |-> c,
     file |-> valid_file_ranges(ob, blob),
     outboard |-> valid_outboard_ranges(ob),
     clean_file |-> valid_file_ranges(obs[b], data),
     clean_outboard |-> valid_outboard_ranges(obs[b])]

\* the changes made before validation, or none
Changes(blob, ob) == {NoTamper} \cup Corruptions(blob, ob)

\* run the validators of one backend's outboard
Validate(b) ==
    /\ phase = "built"
    /\ \E c \in Changes(data, obs[b]) :
          rets' = << ValidatorCall(b, c, CorruptOutboard(obs[b], c), CorruptBlob(data, c)) >>
    /\ phase' = "validated"
    /\ UNCHANGED <<data, block_size, root_hash, obs, ranges, enc, feed, wire, dec>>

NextValidate ==
    \/ Build
    \/ \E b \in Backends : Validate(b)

SpecValidate == Init /\ [][NextValidate]_vars

\* the validators ran on the input as built, of the backend that
\* write_outboard_from_mem fills
ValidatedAsBuilt(b) ==
    /\ phase = "validated"
    /\ rets[1].backend = b
    /\ rets[1].corrupt = NoTamper

\* every chunk of the blob
AllChunks == ChunkRange(0, ByteChunks(Len(data)))

(***************************************************************************)
(* C14: outboard consistency.  For every blob and block size, after the    *)
(* outboard was built from the blob, valid_file_ranges(outboard, blob)     *)
(* returns exactly the full chunk range [0, chunks).                       *)
(***************************************************************************)
C14_BuiltIsValid ==
    ValidatedAsBuilt("PreOrder")
    => /\ rets[1].file.ok
       /\ rets[1].file.res = AllChunks

\* a blob that ends in a half leaf below a root with a pair was validated
C14_Witness ==
    /\ ValidatedAsBuilt("PreOrder")
    /\ block_size = 1
    /\ Len(data) = 5 * ChunkBytes
    /\ rets[1].file.res = 0..4

\* the same for the outboard alone, and for the post-order outboard in memory
BuiltOutboardIsValid ==
    (ValidatedAsBuilt("PreOrder") \/ ValidatedAsBuilt("PostOrderMem"))
    => /\ rets[1].outboard.ok
       /\ rets[1].outboard.res = AllChunks
       /\ rets[1].file.ok
       /\ rets[1].file.res = AllChunks

\* the post-order outboard over the file of the builder
PostOrderBuiltIsValid ==
    ValidatedAsBuilt("PostOrder")
    => /\ rets[1].file.ok
       /\ rets[1].file.res = AllChunks

(***************************************************************************)
(* C15: the validators never return an error because of a hash mismatch:   *)
(* for any change of an outboard pair or of a blob byte they return Ok     *)
(* with a subset of the set returned for the unchanged input, and they     *)
(* never write to the outboard.                                            *)
(***************************************************************************)
OnlyNarrowed ==
    phase = "validated"
    => /\ rets[1].file.ok
       /\ rets[1].outboard.ok
       /\ rets[1].file.res \subseteq rets[1].clean_file.res
       /\ rets[1].outboard.res \subseteq rets[1].clean_outboard.res

C15_ValidatorsOnlyNarrow ==
    /\ []OnlyNarrowed
    /\ [][phase' = "validated" => obs' = obs]_vars

\* a changed pair below the root took away a part of the valid ranges
C15_Witness ==
    /\ phase = "validated"
    /\ rets[1].backend = "PreOrder"
    /\ rets[1].corrupt.kind = "outboard"
    /\ rets[1].outboard.res # {}
    /\ rets[1].outboard.res # rets[1].clean_outboard.res
    /\ rets[1].file.res # rets[1].clean_file.res

\* a changed blob byte took away the chunks of its block half and no others
ChangedByteNarrows ==
    (phase = "validated" /\ rets[1].backend = "PreOrder" /\ rets[1].corrupt.kind = "blob")
    => /\ rets[1].outboard.res = rets[1].clean_outboard.res
       /\ rets[1].file.res # rets[1].clean_file.res
       /\ (rets[1].corrupt.k - 1) \div ChunkBytes \notin rets[1].file.res

(***************************************************************************)
(* The outboards as stores (SpecOutboard): load on the outboard of each    *)
(* backend, for every node of the tree, also after the backing file lost   *)
(* its end; save on the pre-order outboard, and load after it.  rets holds *)
(* the operations made: [op, backend, node, pair, before, ld, cut].        *)
(***************************************************************************)
OutboardOp(op, b, node, pair, before, ld, cut) ==
    [op |-> op, backend |-> b, node |-> node, pair |-> pair, before |-> before,
     ld |-> ld, cut |-> cut]

\* a pair that no node of a built outboard holds
SavedPairs == {<< GarbledHash(0), GarbledHash(HashLen) >>}

\* the outboard when its backing file has lost its last field
CutFile(ob, cut) ==
    IF cut /\ ob.data # <<>> THEN [ob EXCEPT !.data = SubSeq(ob.data, 1, Len(ob.data) - 1)]
    ELSE ob

\* PreOrderOutboard::save(node, pair) on the pre-order outboard
Save ==
    /\ phase = "built"
    /\ \E node \in TreeNodes(obs["PreOrder"].tree) : \E pair \in SavedPairs :
          /\ rets' = << OutboardOp("save", "PreOrder", node, pair, obs["PreOrder"],
                                   LoadNone, FALSE) >>
          /\ obs' = [obs EXCEPT
                       !["PreOrder"] = PreOrderOutboard_save(obs["PreOrder"], node, pair)]
    /\ phase' = "saved"
    /\ UNCHANGED <<data, block_size, root_hash, ranges, enc, feed, wire, dec>>

\* load(node) on the outboard of a backend
Load(b) ==
    /\ phase \in {"built", "saved"}
    /\ phase = "saved" => b = "PreOrder"
    /\ \E node \in TreeNodes(obs[b].tree) : \E cut \in BOOLEAN :
          rets' = Append(rets, OutboardOp("load", b, node, <<>>, obs[b],
                                          Outboard_load(CutFile(obs[b], cut), node), cut))
    /\ phase' = "loaded"
    /\ UNCHANGED <<data, block_size, root_hash, obs, ranges, enc, feed, wire, dec>>

NextOutboard ==
    \/ Build
    \/ Save
    \/ \E b \in Backends : Load(b)

SpecOutboard == Init /\ [][NextOutboard]_vars

\* the load that was made last
TheLoad == rets[Len(rets)]

\* a load was made on the outboard of backend b as it was built, the file whole
LoadedAsBuilt(b) ==
    /\ phase = "loaded"
    /\ Len(rets) = 1
    /\ TheLoad.backend = b
    /\ ~TheLoad.cut

\* the nodes of the Parent directives of the builder, in the order it walks them
BuilderNodes(tree) ==
    LET ps == SelectSeq(PostOrderChunkIter_collect(PostOrderChunkIter_new(tree)),
                        LAMBDA c : c.kind = "Parent")
    IN  [i \in 1..Len(ps) |-> ps[i].node]

\* the pair the builder wrote for a node into its output `file`
BuilderPair(file, tree, node) ==
    << file[2 * IndexOf(BuilderNodes(tree), node) - 1].hash,
       file[2 * IndexOf(BuilderNodes(tree), node)].hash >>

(***************************************************************************)
(* C16: over a post-order outboard file as written by outboard_post_order, *)
(* PostOrderOutboard::load(node) returns for every persisted node exactly  *)
(* the pair the builder wrote for that node, the 64 bytes at byte offset   *)
(* 64 * post_order_offset(node).                                           *)
(***************************************************************************)
C16_PostOrderLoad ==
    (LoadedAsBuilt("PostOrder") /\ is_persisted(TheLoad.before.tree, TheLoad.node))
    => /\ TheLoad.ld.ok
       /\ TheLoad.ld.some
       /\ TheLoad.ld.pair = BuilderPair(TheLoad.before.data, TheLoad.before.tree,
                                         TheLoad.node)
       /\ TheLoad.ld.pair
            = ReadPairAt(TheLoad.before.data,
                         64 * post_order_offset(TheLoad.before.tree, TheLoad.node)).pair

\* the builder wrote the pair of each node at 64 * post_order_offset(node), and
\* the post-order outboard in memory loads it from there
PostOrderMemLoad ==
    (LoadedAsBuilt("PostOrderMem") /\ is_persisted(TheLoad.before.tree, TheLoad.node))
    => /\ TheLoad.ld.ok
       /\ TheLoad.ld.some
       /\ TheLoad.ld.pair = BuilderPair(obs["PostOrder"].data, TheLoad.before.tree,
                                         TheLoad.node)
       /\ TheLoad.ld.pair
            = ReadPairAt(obs["PostOrder"].data,
                         64 * post_order_offset(TheLoad.before.tree, TheLoad.node)).pair

\* what PostOrderOutboard::load returns is what lies 8 bytes further
PostOrderLoadIsShifted ==
    (LoadedAsBuilt("PostOrder") /\ is_persisted(TheLoad.before.tree, TheLoad.node))
    => TheLoad.ld.pair
         = ReadPairAt(TheLoad.before.data,
                      64 * post_order_offset(TheLoad.before.tree, TheLoad.node) + 8).pair


\* the save that was made, and the pre-order outboard before it
TheSave == rets[1]

Saved == phase \in {"saved", "loaded"} /\ Len(rets) >= 1 /\ TheSave.op = "save"

\* byte offset of the pair of the saved node in the pre-order file
SavedOffset == 8 + 64 * pre_order_offset(TheSave.before.tree, TheSave.node)

\* the file after the save differs from the file before only in the 64 bytes at off
OnlyPairWritten(new, old, off, pair) ==
    /\ Len(new) = Len(old)
    /\ FileLen(new) = FileLen(old)
    /\ ReadBytesAt(new, 0, 8) = ReadBytesAt(old, 0, 8)
    /\ ReadPairAt(new, off) = [ok |-> TRUE, pair |-> pair]
    /\ \A j \in 1..Len(old) :
          (FieldStart(old, j) < off \/ FieldStart(old, j) >= off + 64)
          => (new[j] = old[j] /\ FieldStart(new, j) = FieldStart(old, j))

\* a load after the save returns the saved pair for the saved node and what it
\* returned before the save for every other node
LoadAfterSave(ld, node) ==
    IF node = TheSave.node THEN ld = [ok |-> TRUE, some |-> TRUE, pair |-> TheSave.pair]
    ELSE ld = PreOrderOutboard_load(TheSave.before, node)

(***************************************************************************)
(* C17: on a PreOrderOutboard, save(node, pair) for a persisted node       *)
(* writes exactly the 64 bytes at byte offset 8 + 64 * pre_order_offset    *)
(* (node) and nothing else; a following load(node) returns that pair; the  *)
(* pair of every other node and the size header are unchanged.             *)
(***************************************************************************)
C17_SaveThenLoad ==
    (Saved /\ is_persisted(TheSave.before.tree, TheSave.node))
    => /\ OnlyPairWritten(obs["PreOrder"].data, TheSave.before.data, SavedOffset,
                          TheSave.pair)
       /\ obs["PreOrder"].tree = TheSave.before.tree
       /\ obs["PreOrder"].root = TheSave.before.root
       /\ (phase = "loaded" /\ ~TheLoad.cut) => LoadAfterSave(TheLoad.ld, TheLoad.node)

\* the pair of an inner node of a tree with several pairs was replaced and loaded
C17_Witness ==
    /\ Saved
    /\ phase = "loaded"
    /\ ~TheLoad.cut
    /\ is_persisted(TheSave.before.tree, TheSave.node)
    /\ TheLoad.node = TheSave.node
    /\ TheLoad.ld.ok /\ TheLoad.ld.some
    /\ TheLoad.ld.pair = TheSave.pair
    /\ PreOrderOutboard_load(TheSave.before, TheSave.node).pair # TheSave.pair
    /\ pre_order_offset(TheSave.before.tree, TheSave.node) > 0
    /\ FileLen(TheSave.before.data) > 8 + 2 * 64

(***************************************************************************)
(* C18: load returns None exactly when the node is not persisted, for the  *)
(* pre-order and the post-order outboards: never for a persisted node,     *)
(* whose unreadable pair is an I/O error; save on a node that is not       *)
(* persisted returns Ok and leaves the storage unchanged.                  *)
(***************************************************************************)
C18_NoneIffNotPersisted ==
    /\ phase = "loaded"
       => ((TheLoad.ld.ok /\ ~TheLoad.ld.some)
             <=> ~is_persisted(TheLoad.before.tree, TheLoad.node))
    /\ (phase = "loaded" /\ is_persisted(TheLoad.before.tree, TheLoad.node)
          /\ TheLoad.ld.ok)
       => (TheLoad.ld.some /\ Len(TheLoad.ld.pair) = 2)
    /\ (Saved /\ ~is_persisted(TheSave.before.tree, TheSave.node))
       => obs["PreOrder"] = TheSave.before

\* a save and then a load on the half leaf of a blob that ends in the left block
C18_Witness ==
    /\ Saved
    /\ phase = "loaded"
    /\ ~is_persisted(TheSave.before.tree, TheSave.node)
    /\ TheLoad.node = TheSave.node
    /\ TheLoad.ld = LoadNone
    /\ obs["PreOrder"] = TheSave.before
    /\ Len(data) > 0

\* a persisted node whose pair lies past the end of the file is an error
UnreadableIsError ==
    (phase = "loaded" /\ TheLoad.cut
       /\ is_persisted(TheLoad.before.tree, TheLoad.node)
       /\ TheLoad.backend = "PreOrder"
       /\ pre_order_offset(TheLoad.before.tree, TheLoad.node) * 64 + 8 + 64
            > FileLen(CutFile(TheLoad.before, TRUE).data))
    => ~TheLoad.ld.ok


(***************************************************************************)
(* The builder, directive by directive (SpecBuilder): outboard_post_order  *)
(* (io/sync.rs) and outboard_post_order_io (io.rs) over the blob.  rets    *)
(* holds the one builder at work: [fn, run, it, item, prev, result], item  *)
(* being the directive of the last turn of the loop and prev the run       *)
(* before that turn.                                                       *)
(***************************************************************************)
Builders == {"sync", "io"}

\* the hash of a leaf in io.rs
hash_block(start_chunk, buf, is_root) == hash_subtree(start_chunk, buf, is_root)

\* one directive of outboard_post_order_sync_impl (io.rs)
io_BuildStep(run, blob, item) ==
    IF item.kind = "Parent"
    THEN IF Len(run.stack) < 2 THEN [run EXCEPT !.panic = TRUE]
         ELSE LET right_hash == Top(run.stack)
                  left_hash == Top(Pop(run.stack))
              IN  [run EXCEPT
                     !.out = (run.out \o << HashField(left_hash) >>)
                               \o << HashField(right_hash) >>,
                     !.stack = Append(Pop(Pop(run.stack)),
                                      parent_cv(left_hash, right_hash, item.is_root))]
    ELSE LET buf == SubSeq(blob, run.pos + 1, run.pos + item.size)
         IN  [run EXCEPT
                !.pos = run.pos + item.size,
                !.stack = Append(run.stack,
                                 hash_block(item.start_chunk, buf, item.is_root))]

BuilderStep(f, run, blob, item) ==
    IF f = "io" THEN io_BuildStep(run, blob, item) ELSE BuildStep(run, blob, item)

BuilderAt(f, run, it, item, prev, result) ==
    [fn |-> f, run |-> run, it |-> it, item |-> item, prev |-> prev, result |-> result]

NoResult == [hash |-> ZeroHash, out |-> <<>>, panic |-> FALSE]

\* BaoTree::new, the buffer, and the empty stack
StartBuild(f) ==
    /\ phase = "new"
    /\ rets' = << BuilderAt(f, BuildStart,
                            PostOrderChunkIter_new(BaoTree(Len(data), block_size)),
                            <<>>, BuildStart, NoResult) >>
    /\ phase' = "building"
    /\ UNCHANGED <<data, block_size, root_hash, obs, ranges, enc, feed, wire, dec>>

\* one turn of the for loop: r is what the iterator returned
TurnBuild(b, r) ==
    /\ r.item # <<>>
    /\ rets' = << BuilderAt(b.fn, BuilderStep(b.fn, b.run, data, r.item[1]), r.it,
                            r.item, b.run, NoResult) >>
    /\ phase' = "building"
    /\ UNCHANGED <<data, block_size, root_hash, obs, ranges, enc, feed, wire, dec>>

StepBuild ==
    /\ phase = "building"
    /\ ~rets[1].run.panic
    /\ TurnBuild(rets[1], PostOrderChunkIter_next(rets[1].it))

\* the iterator is at its end: the root hash is popped and the size appended
EndBuild(b, r, result) ==
    /\ r.item = <<>>
    /\ rets' = << BuilderAt(b.fn, b.run, r.it, <<>>, b.run, result) >>
    /\ Built(result)
    /\ phase' = "finished"
    /\ UNCHANGED <<data, block_size, ranges, enc, feed, wire, dec>>

FinishBuild ==
    /\ phase = "building"
    /\ ~rets[1].run.panic
    /\ EndBuild(rets[1], PostOrderChunkIter_next(rets[1].it),
                BuildResult(rets[1].run, Len(data)))

NextBuilder ==
    \/ \E f \in Builders : StartBuild(f)
    \/ StepBuild
    \/ FinishBuild

SpecBuilder == Init /\ [][NextBuilder]_vars

TheBuilder == rets[1]

\* the builder has just handled a directive of the given kind
Handled(kind) ==
    /\ phase = "building"
    /\ TheBuilder.item # <<>>
    /\ TheBuilder.item[1].kind = kind

\* the number of Parent directives of the traversal of the tree
ParentDirectives(tree) == Len(BuilderNodes(tree))

\* the last 64 bytes written
LastPair(out) == << out[Len(out) - 1], out[Len(out)] >>

(***************************************************************************)
(* C19: outboard_post_order writes one 64-byte pair (left || right) for    *)
(* each Parent directive, in traversal order, then the blob size as 8      *)
(* little-endian bytes, and nothing else; the output has exactly           *)
(* outboard_size(size, block_size) = 8 + 64 * (number of persisted nodes)  *)
(* bytes and passes the size check of the post-order loaders.              *)
(***************************************************************************)
C19_BuilderOutput ==
    /\ Handled("Parent")
       => /\ Len(TheBuilder.run.out) = Len(TheBuilder.prev.out) + 2
          /\ SubSeq(TheBuilder.run.out, 1, Len(TheBuilder.prev.out)) = TheBuilder.prev.out
          /\ FileLen(TheBuilder.run.out) = FileLen(TheBuilder.prev.out) + 64
          /\ LastPair(TheBuilder.run.out)
               = << HashField(TheBuilder.prev.stack[Len(TheBuilder.prev.stack) - 1]),
                    HashField(Top(TheBuilder.prev.stack)) >>
    /\ Handled("Leaf") => TheBuilder.run.out = TheBuilder.prev.out
    /\ phase = "finished"
       => /\ TheBuilder.result.out
               = Append(TheBuilder.run.out, BytesField(to_le_bytes(Len(data), 8)))
          /\ Len(TheBuilder.run.out)
               = 2 * ParentDirectives(BaoTree(Len(data), block_size))
          /\ FileLen(TheBuilder.result.out) = outboard_size(Len(data), block_size)
          /\ FileLen(TheBuilder.result.out)
               = 8 + 64 * Cardinality(PersistedNodes(BaoTree(Len(data), block_size)))
          /\ PostOrderOutboard_new(TheBuilder.result.hash, block_size,
                                   TheBuilder.result.out).ok
          /\ PostOrderOutboard_new(TheBuilder.result.hash, block_size,
                                   TheBuilder.result.out).tree
               = BaoTree(Len(data), block_size)
          /\ PostOrderMemOutboard_new(TheBuilder.result.hash, TheBuilder.result.out,
                                      block_size).ok

\* the builder of io/sync.rs has finished an outboard of several pairs
C19_Witness ==
    /\ phase = "finished"
    /\ TheBuilder.fn = "sync"
    /\ Len(TheBuilder.run.out) >= 4
    /\ FileLen(TheBuilder.result.out) = 8 + 64 * 2
    /\ obs["PostOrder"].ok
    /\ obs["PostOrder"].data = TheBuilder.result.out

\* BLAKE3 of a blob: the chunk hashes combined in a left-complete binary tree
blake3_hash(blob) == hash_subtree(0, blob, TRUE)

(***************************************************************************)
(* C20: in the builder every Parent directive finds at least two hashes on *)
(* the stack, the right child's on top of the left child's (right is       *)
(* popped first, then left), and when the traversal ends the stack holds   *)
(* exactly one hash, the root hash; so for every blob size and block size, *)
(* the empty blob and blobs ending in a half leaf included.                *)
(***************************************************************************)
C20_BuilderStack ==
    /\ phase \in {"building", "finished"} => ~TheBuilder.run.panic
    /\ Handled("Parent")
       => /\ Len(TheBuilder.prev.stack) >= 2
          /\ TheBuilder.run.stack
               = Append(SubSeq(TheBuilder.prev.stack, 1, Len(TheBuilder.prev.stack) - 2),
                        parent_cv(TheBuilder.prev.stack[Len(TheBuilder.prev.stack) - 1],
                                  Top(TheBuilder.prev.stack),
                                  TheBuilder.item[1].is_root))
          /\ LastPair(TheBuilder.run.out)
               = << HashField(TheBuilder.prev.stack[Len(TheBuilder.prev.stack) - 1]),
                    HashField(Top(TheBuilder.prev.stack)) >>
    /\ Handled("Leaf")
       => TheBuilder.run.stack
            = Append(TheBuilder.prev.stack, Top(TheBuilder.run.stack))
    /\ phase = "finished"
       => /\ TheBuilder.run.stack = << blake3_hash(data) >>
          /\ ~TheBuilder.result.panic
          /\ TheBuilder.result.hash = blake3_hash(data)
          /\ root_hash = blake3_hash(data)

\* a Parent directive found more than two hashes on the stack of a blob that
\* ends in a half leaf
C20_Witness ==
    /\ Handled("Parent")
    /\ Len(TheBuilder.prev.stack) >= 3
    /\ Len(TheBuilder.run.stack) >= 2
    /\ Len(data) = 5 * ChunkBytes - 1
    /\ block_size = 0

\* the builder of the empty blob ends with the hash of the empty root chunk
EmptyBlobBuilt ==
    (phase = "finished" /\ data = <<>>)
    => /\ TheBuilder.run.out = <<>>
       /\ TheBuilder.run.stack = << hash_chunk(0, <<>>, TRUE) >>
       /\ FileLen(TheBuilder.result.out) = 8


(***************************************************************************)
(* The traversals (SpecIter): the post-order traversal of the tree of the  *)
(* blob and the pre-order traversal for a range set and a max_skip_level.  *)
(* rets holds the one traversal made: [order, tree, k, nodes, items], nodes *)
(* being what PreOrderPartialIterRef returned and items the directives.    *)
(***************************************************************************)
MaxSkipLevel == 2

RECURSIVE PreOrderPartialIterRef_collect(_)
PreOrderPartialIterRef_rest(r) ==
    IF r.item = <<>> THEN <<>>
    ELSE r.item \o PreOrderPartialIterRef_collect(r.it)

\* all remaining items of a PreOrderPartialIterRef
PreOrderPartialIterRef_collect(it) ==
    PreOrderPartialIterRef_rest(PreOrderPartialIterRef_next(it))

Traversal(order, tree, k, nodes, items) ==
    [order |-> order, tree |-> tree, k |-> k, nodes |-> nodes, items |-> items]

\* BaoTree::post_order_chunks_iter, run to its end
PostOrderTraverse ==
    /\ phase \in {"new", "built"}
    /\ rets' = << Traversal("post", BaoTree(Len(data), block_size), 0, <<>>,
                            PostOrderChunkIter_collect(
                                PostOrderChunkIter_new(BaoTree(Len(data), block_size)))) >>
    /\ phase' = "walked"
    /\ UNCHANGED <<data, block_size, root_hash, obs, ranges, enc, feed, wire, dec>>

\* BaoTree::ranges_pre_order_chunks_iter_ref, run to its end
PreOrderTraverse(rs, k) ==
    /\ phase \in {"new", "built"}
    /\ rets' = << Traversal("pre", BaoTree(Len(data), block_size), k,
                            PreOrderPartialIterRef_collect(
                                PreOrderPartialIterRef_new(BaoTree(Len(data), block_size),
                                                           rs, k)),
                            PreOrderChunkIterRef_collect(
                                PreOrderChunkIterRef_new(BaoTree(Len(data), block_size),
                                                         rs, k))) >>
    /\ ranges' = rs
    /\ phase' = "walked"
    /\ UNCHANGED <<data, block_size, root_hash, obs, enc, feed, wire, dec>>

NextIter ==
    \/ PostOrderTraverse
    \/ \E rs \in ChunkRangesSet : \E k \in 0..MaxSkipLevel : PreOrderTraverse(rs, k)

SpecIter == Init /\ [][NextIter]_vars

TheWalk == rets[1]

WalkedIn(order) == phase = "walked" /\ TheWalk.order = order

\* the directives of the traversal of a kind
ItemsOf(kind) == {i \in 1..Len(TheWalk.items) : TheWalk.items[i].kind = kind}

\* the rightmost leaf node of the tree
LastLeaf(tree) ==
    CHOOSE n \in TreeNodes(tree) :
        /\ is_leaf(n)
        /\ \A m \in TreeNodes(tree) : is_leaf(m) => m <= n

\* the Leaf directives of the rightmost leaf node that hold the end of the blob
FinalLeaves ==
    {i \in ItemsOf("Leaf") :
        /\ TheWalk.items[i].start_chunk >= chunk_num(TheWalk.tree, LastLeaf(TheWalk.tree))
        /\ TheWalk.items[i].start_chunk * ChunkBytes + TheWalk.items[i].size
             = TheWalk.tree.size}

\* the final leaf has no Parent directive for its node, and is the root exactly
\* when its node is the root of the tree
FinalLeafAlone ==
    /\ \A i \in ItemsOf("Parent") : TheWalk.items[i].node # LastLeaf(TheWalk.tree)
    /\ \A i \in FinalLeaves :
          TheWalk.items[i].is_root <=> (LastLeaf(TheWalk.tree) = root(TheWalk.tree))

\* the last leaf node holds data in its left block only
EndsInHalfLeaf ==
    \/ Len(data) = 0
    \/ (Len(data) - 1) % (2 * ChunkBytes * 2^block_size) < ChunkBytes * 2^block_size

\* the first statement of C21: every blob whose size is not a multiple of
\* 2 * block_bytes has its final leaf emitted without a Parent for its node
FinalLeafAloneUnlessMultiple ==
    (phase = "walked" /\ TheWalk.k = 0 /\ FinalLeaves # {}
       /\ Len(data) % (2 * ChunkBytes * 2^block_size) # 0)
    => FinalLeafAlone

(***************************************************************************)
(* C21: for every blob whose last leaf node is a half leaf (the size is 0  *)
(* or leaves a remainder of 1..block_bytes modulo 2 * block_bytes), the    *)
(* final leaf is emitted without a Parent directive for its node, and that *)
(* Leaf carries is_root = true exactly when the leaf is the root of the    *)
(* tree; in the post-order traversal and in every pre-order traversal that *)
(* emits it.                                                               *)
(***************************************************************************)
C21_HalfLeafAlone ==
    (phase = "walked" /\ EndsInHalfLeaf)
    => /\ FinalLeafAlone
       /\ WalkedIn("post") => Cardinality(FinalLeaves) = 1
       /\ ~is_persisted(TheWalk.tree, LastLeaf(TheWalk.tree))

\* a pre-order traversal emitted the half leaf of a tree of several nodes
C21_Witness ==
    /\ WalkedIn("pre")
    /\ EndsInHalfLeaf
    /\ Len(data) = 4 * ChunkBytes + 1
    /\ block_size = 0
    /\ FinalLeaves # {}
    /\ ItemsOf("Parent") # {}
    /\ \A i \in FinalLeaves : ~TheWalk.items[i].is_root

\* the half leaf that is the root carries is_root
RootHalfLeaf ==
    (phase = "walked" /\ Len(data) <= ChunkBytes * 2^block_size)
    => /\ ItemsOf("Parent") = {}
       /\ \A i \in ItemsOf("Leaf") : TheWalk.items[i].is_root


(***************************************************************************)
(* A stream that ends early, and a reader that fails (SpecShort).  The     *)
(* decoder is handed the first n bytes of the answer of a peer; a call of  *)
(* next may also find its read failing with an error other than the end of *)
(* the stream.  Calls are made until the first error.                      *)
(***************************************************************************)
\* the first n bytes of a field; what part of a hash holds is never looked at
PartOf(f, n) ==
    IF f.tag = "hash" THEN BytesField([i \in 1..n |-> 0])
    ELSE BytesField(SubSeq(f.bytes, 1, n))

RECURSIVE CutBytes(_, _)
\* the first n bytes of a stream
CutBytes(w, n) ==
    IF w = <<>> THEN <<>>
    ELSE IF FieldLen(Head(w)) <= n
    THEN << Head(w) >> \o CutBytes(Tail(w), n - FieldLen(Head(w)))
    ELSE IF n = 0 THEN <<>>
    ELSE << PartOf(Head(w), n) >>

\* where a stream is cut: before a field, one byte into it, or not at all
CutPoints(w) ==
    {FieldStart(w, k) : k \in 1..Len(w)}
    \cup {FieldStart(w, k) + 1 : k \in {i \in 1..Len(w) : FieldLen(w[i]) >= 2}}
    \cup {FileLen(w)}

\* io::ErrorKind of a failed read_exact: the stream ended, or anything else
ReadErrorKinds == {"UnexpectedEof", "Other"}

\* StartDecodeError::maybe_not_found
maybe_not_found(kind) == IF kind = "UnexpectedEof" THEN "NotFound" ELSE "Io"

\* DecodeError::maybe_parent_not_found
maybe_parent_not_found(kind) == IF kind = "UnexpectedEof" THEN "ParentNotFound" ELSE "Io"

\* DecodeError::maybe_leaf_not_found
maybe_leaf_not_found(kind) == IF kind = "UnexpectedEof" THEN "LeafNotFound" ELSE "Io"

\* next0 in the Content state when the read of the directive fails with `kind`
ContentReadError(d, r, kind) ==
    [dec |-> [d EXCEPT !.iter = r.it],
     ret |-> IF r.item[1].kind = "Parent"
             THEN RetErr(maybe_parent_not_found(kind),
                         IF kind = "UnexpectedEof" THEN r.item[1].node ELSE 0, r.item[1])
             ELSE RetErr(maybe_leaf_not_found(kind),
                         IF kind = "UnexpectedEof" THEN r.item[1].start_chunk ELSE 0,
                         r.item[1])]

\* next0 when the read it makes fails with an error that is not the end of
\* the stream
DecodeReadError(d) ==
    IF d.pos = "Header"
    THEN [dec |-> d, ret |-> RetErr(maybe_not_found("Other"), 0, NoDir)]
    ELSE ContentReadError(d, ResponseIterRef_next(d.iter), "Other")

\* whether the next call reads from the stream: read_exact of no bytes does not
ReadsNext(d, r) ==
    r.item # <<>> /\ ChunkSize(r.item[1]) > 0

CallReads(d) ==
    IF d.pos = "Header" THEN TRUE ELSE ReadsNext(d, ResponseIterRef_next(d.iter))

\* the first n bytes of the stream go on the wire, for some cut point n
ShortSent(base) ==
    \E n \in CutPoints(base) :
       /\ wire' = CutBytes(base, n)
       /\ feed' = [src |-> "answer", tamper |-> [kind |-> "cut", k |-> n, j |-> 0]]

\* hand a decoder the beginning of the answer of a peer
ServeShort(rs) ==
    /\ phase = "built"
    /\ ShortSent(AnswerWire(data, block_size, rs))
    /\ phase' = "decode"
    /\ ranges' = rs
    /\ dec' = DecodeResponseIter_new(root_hash, block_size, rs)
    /\ rets' = <<>>
    /\ UNCHANGED <<data, block_size, root_hash, obs, enc>>

Failed == \E i \in 1..Len(rets) : rets[i].tag = "Err"

\* one call of DecodeResponseIter::next, while no call has failed
ShortNext ==
    /\ phase = "decode"
    /\ ~Finished
    /\ ~Failed
    /\ Len(rets) < MaxCalls
    /\ Returned(DecodeResponseIter_next(dec, wire))
    /\ UNCHANGED <<phase, data, block_size, root_hash, obs, ranges, enc, feed, wire>>

\* one call of DecodeResponseIter::next whose read fails
FailingNext ==
    /\ phase = "decode"
    /\ ~Finished
    /\ ~Failed
    /\ Len(rets) < MaxCalls
    /\ CallReads(dec)
    /\ Returned(DecodeReadError(dec))
    /\ feed' = [feed EXCEPT !.src = "broken"]
    /\ UNCHANGED <<phase, data, block_size, root_hash, obs, ranges, enc, wire>>

NextShort ==
    \/ Build
    \/ \E rs \in ChunkRangesSet : ServeShort(rs)
    \/ ShortNext
    \/ FailingNext

SpecShort == Init /\ [][NextShort]_vars


\* the bytes each item of the decoder takes from the stream: the header, then
\* the directives
ItemSizes(dirs) == << HeaderLen >> \o [i \in 1..Len(dirs) |-> ChunkSize(dirs[i])]

\* the number of leading items that lie wholly in the first `avail` bytes
WholeItems(sizes, avail) ==
    Cardinality({m \in 1..Len(sizes) : SumSeq(SubSeq(sizes, 1, m)) <= avail})

\* the error that names item k of the stream as incomplete
NamesIncomplete(r, dirs, k) ==
    /\ r.tag = "Err"
    /\ IF k = 1 THEN r.kind = "NotFound"
       ELSE IF dirs[k - 1].kind = "Parent"
       THEN r.kind = "ParentNotFound" /\ r.a = dirs[k - 1].node
       ELSE r.kind = "LeafNotFound" /\ r.a = dirs[k - 1].start_chunk

\* item k of the stream was emitted
EmitsItem(r, dirs, k) ==
    /\ r.tag = "Item"
    /\ r.kind = (IF k = 1 THEN "Header" ELSE dirs[k - 1].kind)

\* a read that failed for another reason than the end of the stream
IsIoError(r) == r.tag = "Err" /\ r.kind = "Io"

\* what the calls made so far returned, for a stream with `whole` whole items
\* of `total`
ShortOutcome(dirs, whole, total) ==
    /\ \A i \in 1..Len(rets) :
          /\ rets[i].tag # "Panic"
          /\ rets[i].kind \notin {"ParentHashMismatch", "LeafHashMismatch"}
          /\ IsIoError(rets[i]) <=> (i = Len(rets) /\ feed.src = "broken")
          /\ (i <= whole /\ ~IsIoError(rets[i])) => EmitsItem(rets[i], dirs, i)
          /\ (i = whole + 1 /\ whole < total /\ ~IsIoError(rets[i]))
                => NamesIncomplete(rets[i], dirs, i)
          /\ i = total + 1 => rets[i].tag = "None"
          /\ i < Len(rets) => rets[i].tag = "Item"
    /\ Len(rets) <= total + 1

C22_IoWitness ==
    /\ phase = "decode"
    /\ Len(rets) = 3
    /\ rets[2].tag = "Item"
    /\ IsIoError(rets[3])


\* the calls that returned an item
ItemCalls == {i \in 1..Len(rets) : rets[i].tag = "Item"}

\* the size the header of the stream states
StatedSize == from_le_bytes(ReadBytesAt(wire, 0, HeaderLen).bytes)

\* the Header item is the first item and the only Header; before it nothing
\* was read but the header
HeaderFirst ==
    (phase = "decode" /\ dec.api = "Response")
    => /\ dec.pos \in {"Header", "Content"}
       /\ dec.pos = "Header" <=> ItemCalls = {}
       /\ dec.pos = "Header" => (dec.rd = 0 \/ dec.rd < HeaderLen)
       /\ rets = <<>> => (dec.pos = "Header" /\ dec.rd = 0)
       /\ \A i \in ItemCalls :
             rets[i].kind = "Header" <=> (\A j \in ItemCalls : i <= j)
       /\ \A i \in ItemCalls :
             rets[i].kind = "Header" => rets[i].a = StatedSize
       /\ (Len(rets) = 1 /\ ItemCalls = {1}) => dec.rd = HeaderLen

(***************************************************************************)
(* C23: DecodeResponseIter starts in the Header state, emits exactly one   *)
(* Header{size} item, as its first item and after reading exactly 8 bytes, *)
(* then is in the Content state and never returns to Header; no Parent or  *)
(* Leaf item is emitted and no parent or leaf byte is read before the      *)
(* Header item.                                                            *)
(***************************************************************************)
C23_HeaderOnce ==
    /\ []HeaderFirst
    /\ [][(phase = "decode" /\ dec.pos = "Content") => dec'.pos = "Content"]_vars

\* the Header item was followed by a Parent and a Leaf item
C23_Witness ==
    /\ phase = "decode"
    /\ Len(rets) >= 3
    /\ rets[1].tag = "Item" /\ rets[1].kind = "Header" /\ rets[1].a = Len(data)
    /\ rets[2].tag = "Item" /\ rets[2].kind = "Parent"
    /\ rets[3].tag = "Item" /\ rets[3].kind = "Leaf"
    /\ dec.pos = "Content"


\* the hashes a directive pushes for the directives after it
Pushes(d) ==
    IF d.kind = "Parent"
    THEN (IF d.left THEN 1 ELSE 0) + (IF d.right THEN 1 ELSE 0)
    ELSE 0

RECURSIVE Owed(_)
\* the hashes the directives still pop from the present stack: each pops
\* one, and a parent supplies those of its flagged children itself
Owed(dirs) ==
    IF dirs = <<>> THEN 0
    ELSE 1 - Pushes(Head(dirs)) + Owed(Tail(dirs))

\* the decoder returned an item or the end of the traversal
ReturnedOk == rets # <<>> /\ Last(rets).tag \in {"Item", "None"}

(***************************************************************************)
(* C24: each time DecodeResponseIter returns an item, the depth of its     *)
(* hash stack is the number of hashes the remaining directives still pop   *)
(* from it; the pop of a Parent or Leaf directive never fails; and the     *)
(* stack is empty when the traversal is exhausted, for every tree and      *)
(* every range set, the empty one included.                                *)
(***************************************************************************)
C24_StackOwes ==
    (phase = "decode" /\ dec.api = "Response")
    => /\ \A i \in 1..Len(rets) : rets[i].tag # "Panic"
       /\ IF ReturnedOk
          THEN Len(dec.stack) = Owed(ResponseIterRef_collect(dec.iter))
          ELSE TRUE

\* the traversal of an empty range set is exhausted and the root hash is
\* still on the stack
StackKeepsRoot ==
    /\ phase = "decode" /\ dec.api = "Response"
    /\ ranges = <<>>
    /\ Len(rets) = 2 /\ Last(rets).tag = "None"
    /\ dec.stack = << root_hash >>

\* a call after a hash mismatch popped from the empty stack
PopFailed ==
    /\ phase = "decode" /\ dec.api = "Response"
    /\ Len(rets) >= 2
    /\ Last(rets).tag = "Panic"
    /\ rets[Len(rets) - 1].kind \in {"ParentHashMismatch", "LeafHashMismatch"}

\* at block size 0, on a stream that was not changed and for ranges that
\* all begin within the blob, the stack holds what is owed and ends empty
StackOwesOnValid ==
    (/\ phase = "decode" /\ dec.api = "Response"
     /\ feed.tamper.kind = "none"
     /\ block_size = 0
     /\ ranges # <<>>
     /\ \A i \in 1..Len(ranges) :
           i % 2 = 1 => ranges[i] < Max(ByteChunks(Len(data)), 1))
    => /\ \A i \in 1..Len(rets) : rets[i].tag = "Item" \/ rets[i].tag = "None"
       /\ IF rets # <<>>
          THEN Len(dec.stack) = Owed(ResponseIterRef_collect(dec.iter))
          ELSE TRUE


\* the places of the directives of the traversal that carry is_root
RootFlagged == {i \in 1..Len(TheWalk.items) : TheWalk.items[i].is_root}

\* the directive is the one of the root: the Leaf of a half-leaf root, else
\* the Parent of the root node
IsRootDirective(tree, d) ==
    IF ~is_persisted(tree, root(tree))
    THEN d.kind = "Leaf"
    ELSE d.kind = "Parent" /\ d.node = root(tree)

(***************************************************************************)
(* C25: in a complete traversal of a tree exactly one directive has        *)
(* is_root = true: the last directive of the post-order traversal and, for *)
(* ranges that are not empty, the first directive of the pre-order         *)
(* traversal for ranges; it is a Leaf only when the root is a half leaf,   *)
(* otherwise the Parent of the root.                                       *)
(***************************************************************************)
C25_OneRoot ==
    /\ WalkedIn("post")
       => /\ RootFlagged = {Len(TheWalk.items)}
          /\ TheWalk.items # <<>>
    /\ (WalkedIn("pre") /\ ranges # <<>>)
       => /\ RootFlagged = {1}
          /\ TheWalk.items # <<>>
    /\ phase = "walked"
       => \A i \in RootFlagged : IsRootDirective(TheWalk.tree, TheWalk.items[i])


\* the root, not a leaf node, is emitted whole as one Leaf: the range set is
\* all chunks and the level of the root is at most max_skip_level
RootSkipped ==
    /\ TheWalk.order = "pre"
    /\ ~is_leaf(root(TheWalk.tree))
    /\ ranges = <<0>>
    /\ level(root(TheWalk.tree)) <= TheWalk.k

\* no range begins within the only block of a tree whose root is a half leaf
NothingSelected ==
    \/ ranges = <<>>
    \/ /\ ~is_persisted(TheWalk.tree, root(TheWalk.tree))
       /\ ranges[1] >= chunk_group_chunks(TheWalk.tree)

\* C25 as amended: one directive carries is_root, the last of the post-order
\* traversal and the first of a pre-order traversal that emits anything; it
\* is a Leaf when the root is a half leaf or is emitted whole under
\* max_skip_level, otherwise the Parent of the root
C25_OneRootOrSkipped ==
    /\ WalkedIn("post")
       => /\ TheWalk.items # <<>>
          /\ RootFlagged = {Len(TheWalk.items)}
          /\ IsRootDirective(TheWalk.tree, TheWalk.items[Len(TheWalk.items)])
    /\ WalkedIn("pre")
       => /\ TheWalk.items = <<>> <=> NothingSelected
          /\ RootFlagged = (IF TheWalk.items = <<>> THEN {} ELSE {1})
          /\ \A i \in RootFlagged :
                IF RootSkipped
                THEN /\ TheWalk.items[i].kind = "Leaf"
                     /\ TheWalk.items[i].size = TheWalk.tree.size
                     /\ is_persisted(TheWalk.tree, root(TheWalk.tree))
                ELSE IsRootDirective(TheWalk.tree, TheWalk.items[i])

\* the root of a tree of more than two blocks was emitted as one Leaf that
\* carries is_root
C25_Witness ==
    /\ WalkedIn("pre")
    /\ RootSkipped
    /\ Len(data) > 2 * ChunkBytes * 2^block_size
    /\ TheWalk.items = << LeafChunk(0, Len(data), TRUE, <<0>>) >>


\* the places of the Parent directives of a node, and of the Leaf directives
\* that start at a chunk
ParentsOf(node) ==
    {i \in ItemsOf("Parent") : TheWalk.items[i].node = node}

LeavesAt(chunk) ==
    {i \in ItemsOf("Leaf") : TheWalk.items[i].start_chunk = chunk}

\* the places of the directives of the subtree of a node: the Parents of the
\* nodes below it and the Leafs of its chunks
Below(tree, node) ==
    {i \in ItemsOf("Parent") :
        /\ TheWalk.items[i].node # node
        /\ block_range(node).start <= block_range(TheWalk.items[i].node).start
        /\ block_range(TheWalk.items[i].node).end <= block_range(node).end}
    \cup
    {i \in ItemsOf("Leaf") :
        /\ chunk_range(tree, node).start <= TheWalk.items[i].start_chunk
        /\ TheWalk.items[i].start_chunk < chunk_range(tree, node).end}

\* the three directives of a leaf node with data in both blocks, at i
LeafNodeAt(tree, n, i) ==
    /\ i + 2 <= Len(TheWalk.items)
    /\ LeavesAt(chunk_num(tree, n)) = {i}
    /\ TheWalk.items[i].size = chunk_group_bytes(tree)
    /\ LeavesAt(chunk_num(tree, n) + chunk_group_chunks(tree)) = {i + 1}
    /\ TheWalk.items[i + 1].size
         = leaf_byte_ranges3(tree, n).e - leaf_byte_ranges3(tree, n).m
    /\ ParentsOf(n) = {i + 2}

\* the one directive of a half leaf
HalfLeafAt(tree, n) ==
    /\ Cardinality(LeavesAt(chunk_num(tree, n))) = 1
    /\ LeavesAt(chunk_num(tree, n) + chunk_group_chunks(tree)) = {}
    /\ ParentsOf(n) = {}

PostOrderOfTree(tree) ==
    /\ \A n \in {m \in TreeNodes(tree) : is_leaf(m)} :
          IF is_persisted(tree, n)
          THEN \E i \in 1..Len(TheWalk.items) : LeafNodeAt(tree, n, i)
          ELSE HalfLeafAt(tree, n)
    /\ \A n \in {m \in TreeNodes(tree) : ~is_leaf(m)} :
          Cardinality(ParentsOf(n)) = 1
    /\ \A i \in ItemsOf("Parent") :
          /\ TheWalk.items[i].node \in TreeNodes(tree)
          /\ \A j \in Below(tree, TheWalk.items[i].node) : j < i
          /\ is_leaf(TheWalk.items[i].node)
             => Cardinality(Below(tree, TheWalk.items[i].node)) = 2
    /\ \A i \in ItemsOf("Leaf") :
          \E n \in TreeNodes(tree) :
             /\ is_leaf(n)
             /\ TheWalk.items[i].start_chunk
                  \in {chunk_num(tree, n), chunk_num(tree, n) + chunk_group_chunks(tree)}

(***************************************************************************)
(* C26: PostOrderChunks emits, for each leaf node, the left Leaf, then the *)
(* right Leaf, then the Parent of the node; for a half leaf one Leaf and   *)
(* no Parent; and every Parent comes after all directives of its left and  *)
(* right subtrees, so that a leaf node has a Parent exactly when two Leaf  *)
(* directives were emitted for it.                                         *)
(***************************************************************************)
C26_PostOrder == WalkedIn("post") => PostOrderOfTree(TheWalk.tree)

\* a tree of two full leaf nodes and a half leaf was walked
C26_Witness ==
    /\ WalkedIn("post")
    /\ Len(data) = 5 * ChunkBytes - 1
    /\ block_size = 0
    /\ Cardinality(ItemsOf("Leaf")) = 5
    /\ Cardinality(ItemsOf("Parent")) = 4
    /\ TheWalk.items[3].kind = "Parent"


(***************************************************************************)
(* The traversals of a blob whose outboard was built (SpecWalk).           *)
(***************************************************************************)
NextWalk ==
    \/ Build
    \/ NextIter

SpecWalk == Init /\ [][NextWalk]_vars

\* the blob of four full chunks and one more byte, at block size 0, built
\* and walked in post-order
FourChunksAndOne ==
    /\ WalkedIn("post")
    /\ obs # <<>>
    /\ Len(data) = 4 * ChunkBytes + 1
    /\ block_size = 0

\* the hash of chunk c of the blob, not as a root
ChunkHashOf(c) ==
    hash_chunk(c, SubSeq(data, c * ChunkBytes + 1, Min((c + 1) * ChunkBytes, Len(data))),
               FALSE)

\* the pair of the root of the blob of five chunks
UpperPair ==
    << parent_cv(parent_cv(ChunkHashOf(0), ChunkHashOf(1), FALSE),
                 parent_cv(ChunkHashOf(2), ChunkHashOf(3), FALSE), FALSE),
       ChunkHashOf(4) >>

\* the Leaf directives of a size
LeavesOfSize(n) == {i \in ItemsOf("Leaf") : TheWalk.items[i].size = n}

\* four full Leafs, a fifth Leaf of one byte, and the root hash over the
\* pair of the root Parent
FiveLeaves ==
    /\ Cardinality(ItemsOf("Leaf")) = 5
    /\ Cardinality(LeavesOfSize(ChunkBytes)) = 4
    /\ \E i \in LeavesOfSize(1) :
          /\ TheWalk.items[i].start_chunk = 4
          /\ ~TheWalk.items[i].is_root
          /\ \A j \in ItemsOf("Leaf") : j <= i
          /\ ParentsOf(4) = {}
    /\ root_hash = parent_cv(UpperPair[1], UpperPair[2], TRUE)
    /\ ParentsOf(3) = {Len(TheWalk.items)}
    /\ TheWalk.items[Len(TheWalk.items)].is_root

(***************************************************************************)
(* C27: for a blob of four full chunks and one byte (4097 bytes) at block  *)
(* size 0 the traversal emits exactly two Parent directives, four full     *)
(* Leaf directives and a fifth Leaf for the half leaf, and the root hash   *)
(* is parent_cv of the pair of the upper Parent with is_root = true.       *)
(***************************************************************************)
C27_TwoParents ==
    FourChunksAndOne
    => /\ Cardinality(ItemsOf("Parent")) = 2
       /\ FiveLeaves

\* C27 as amended: four Parent directives, those of the two leaf nodes, of
\* the node above them and of the root
C27_FourParents ==
    FourChunksAndOne
    => /\ Cardinality(ItemsOf("Parent")) = 4
       /\ \A n \in {0, 1, 2, 3} : Cardinality(ParentsOf(n)) = 1
       /\ \A i \in ItemsOf("Parent") : TheWalk.items[i].is_root <=> TheWalk.items[i].node = 3
       /\ FiveLeaves

\* the blob of the scenario was built and walked
C27_Witness ==
    /\ FourChunksAndOne
    /\ Len(TheWalk.items) = 9
    /\ root_hash # ZeroHash
    /\ TheWalk.items[8].kind = "Leaf"
    /\ TheWalk.items[9].kind = "Parent"


\* the empty blob at block size 0, its full range encoded and handed to a decoder
EmptyBlobServed ==
    /\ phase = "decode"
    /\ data = <<>>
    /\ block_size = 0
    /\ FullRange
    /\ feed.src = "encoded"
    /\ dec.api = "Response"

\* the root hash is that of the empty input and the encoder wrote the
\* eight zero bytes of the header and nothing else
EmptySlice ==
    /\ root_hash = blake3_hash(<<>>)
    /\ root_hash = hash_chunk(0, <<>>, TRUE)
    /\ enc[1].run.err = NoErr
    /\ FileLen(enc[1].run.out) = HeaderLen
    /\ ReadBytesAt(enc[1].run.out, 0, HeaderLen).bytes = [i \in 1..HeaderLen |-> 0]
    /\ FileLen(wire) = HeaderLen

SizeChanged ==
    /\ phase = "decode"
    /\ dec.api = "Response"
    /\ feed.tamper.kind = "size"
    /\ FullRange

\* the calls before which every call returned an item
FirstCalls == {i \in 1..Len(rets) : \A j \in 1..(i - 1) : rets[j].tag = "Item"}

Rejections ==
    {"ParentHashMismatch", "LeafHashMismatch", "ParentNotFound", "LeafNotFound"}

Visited == {TheWalk.nodes[j].node : j \in 1..Len(TheWalk.nodes)}

\* the nodes strictly below a node
StrictlyBelow(n, m) ==
    /\ m # n
    /\ block_range(n).start <= block_range(m).start
    /\ block_range(m).end <= block_range(n).end

\* every chunk of the node is in the requested ranges
FullyContained(tree, n) ==
    \A c \in chunk_range(tree, n).start..(chunk_range(tree, n).end - 1) :
       RangeContains(ranges, c)

\* the node is emitted as one Leaf over its whole byte range and nothing
\* below it is visited
EmittedWhole(tree, n) ==
    /\ \E i \in ItemsOf("Leaf") :
          /\ TheWalk.items[i].start_chunk = ByteChunks(byte_range(tree, n).start)
          /\ TheWalk.items[i].size = byte_range(tree, n).end - byte_range(tree, n).start
    /\ ParentsOf(n) = {}
    /\ \A m \in Visited : ~StrictlyBelow(n, m)

\* the node is emitted as a Parent that flags the sides whose ranges are not
\* empty, and the sides visited are those flagged
EmittedParent(tree, info) ==
    /\ \E i \in ParentsOf(info.node) :
          /\ ParentsOf(info.node) = {i}
          /\ TheWalk.items[i].left <=> info.l_ranges # <<>>
          /\ TheWalk.items[i].right <=> info.r_ranges # <<>>
    /\ info.l_ranges # <<>> <=> left_child(info.node) \in Visited
    /\ info.r_ranges # <<>>
         <=> right_descendant(info.node, filled_size(tree)) \in Visited
    /\ \A m \in Visited :
          StrictlyBelow(info.node, m)
          => \/ m = left_child(info.node) \/ StrictlyBelow(left_child(info.node), m)
             \/ m = right_descendant(info.node, filled_size(tree))
             \/ StrictlyBelow(right_descendant(info.node, filled_size(tree)), m)

SkipsFullNodes(tree, k) ==
    \A j \in 1..Len(TheWalk.nodes) :
       ~is_leaf(TheWalk.nodes[j].node)
       => IF FullyContained(tree, TheWalk.nodes[j].node)
             /\ level(TheWalk.nodes[j].node) <= k
          THEN EmittedWhole(tree, TheWalk.nodes[j].node)
          ELSE EmittedParent(tree, TheWalk.nodes[j])

(***************************************************************************)
(* C30: for max_skip_level = k the pre-order traversal for ranges emits a  *)
(* non-leaf node as one Leaf directive over the node's whole byte range,   *)
(* with none of its descendants emitted, exactly when the node is fully    *)
(* contained in the range set and its level is at most k; every other      *)
(* visited non-leaf node is emitted as a Parent whose left and right flags *)
(* are true exactly when the left and right part of its range is not       *)
(* empty, and only the flagged sides are descended into.                   *)
(***************************************************************************)
C30_SkipLevel == WalkedIn("pre") => SkipsFullNodes(TheWalk.tree, TheWalk.k)

\* what the code does: a node is taken for full only when its ranges are one
\* open-ended range that begins at or before the node
SkipsOpenEnded ==
    WalkedIn("pre")
    => \A j \in 1..Len(TheWalk.nodes) :
          ~is_leaf(TheWalk.nodes[j].node)
          => /\ TheWalk.nodes[j].full
                  <=> (/\ Len(TheWalk.nodes[j].ranges) = 1
                       /\ TheWalk.nodes[j].ranges[1]
                            <= chunk_range(TheWalk.tree, TheWalk.nodes[j].node).start)
             /\ TheWalk.nodes[j].full => FullyContained(TheWalk.tree, TheWalk.nodes[j].node)
             /\ IF TheWalk.nodes[j].full /\ level(TheWalk.nodes[j].node) <= TheWalk.k
                THEN EmittedWhole(TheWalk.tree, TheWalk.nodes[j].node)
                ELSE EmittedParent(TheWalk.tree, TheWalk.nodes[j])

\* the root lies within a closed range, its level is within max_skip_level,
\* and it is emitted as a Parent
ContainedButParent ==
    /\ WalkedIn("pre")
    /\ Len(ranges) = 2
    /\ ~is_leaf(root(TheWalk.tree))
    /\ FullyContained(TheWalk.tree, root(TheWalk.tree))
    /\ level(root(TheWalk.tree)) <= TheWalk.k
    /\ TheWalk.items[1].kind = "Parent"
    /\ TheWalk.items[1].node = root(TheWalk.tree)

(***************************************************************************)
(* The encoders' traversal (encode_ranges, sync.rs 534..552): pre-order    *)
(* for ranges with max_skip_level = 0, each Leaf directive read into a     *)
(* buffer of chunk_group_bytes bytes.                                      *)
(***************************************************************************)
\* the traversal made is the one the encoders make
EncoderWalk == WalkedIn("pre") /\ TheWalk.k = 0

\* the Leaf directive is one half of the leaf node n
HalfOf(tree, n, d) ==
    LET b == leaf_byte_ranges3(tree, n)
    IN  \/ d.start_chunk = chunk_num(tree, n) /\ d.size = b.m - b.s
        \/ /\ d.start_chunk = chunk_num(tree, n) + chunk_group_chunks(tree)
           /\ d.size = b.e - b.m

\* buffer[..size] of a buffer of chunk_group_bytes bytes is in bounds
SliceInBounds(tree, d) == d.size <= chunk_group_bytes(tree)

LeafHalvesOnly(tree, items) ==
    \A i \in 1..Len(items) :
        items[i].kind = "Leaf" =>
            /\ \E n \in {m \in TreeNodes(tree) : is_leaf(m)} : HalfOf(tree, n, items[i])
            /\ SliceInBounds(tree, items[i])

\* C31: with max_skip_level = 0 every Leaf directive of the pre-order
\* traversal for ranges is one half of a leaf node of the tree, no inner node
\* is a leaf of the query, and every Leaf size is at most chunk_group_bytes
C31_LeafFitsBuffer ==
    EncoderWalk =>
        /\ LeafHalvesOnly(TheWalk.tree, TheWalk.items)
        /\ \A j \in 1..Len(TheWalk.nodes) :
               TheWalk.nodes[j].query_leaf => is_leaf(TheWalk.nodes[j].node)

\* the encoders' traversal of a tree with inner nodes, with an inner node
\* wholly in the ranges, emits a Leaf directive that fills the buffer
C31_Witness ==
    /\ EncoderWalk
    /\ \E j \in 1..Len(TheWalk.nodes) :
           TheWalk.nodes[j].full /\ ~is_leaf(TheWalk.nodes[j].node)
    /\ \E i \in ItemsOf("Leaf") :
           TheWalk.items[i].size = chunk_group_bytes(TheWalk.tree)

(***************************************************************************)
(* The ranges a DecodeResponseIter is given against the same ranges        *)
(* restricted to the chunks of the blob (next0, sync.rs 445..459).         *)
(***************************************************************************)
\* the boundaries of the range set that holds exactly the chunks cs of 0..(n - 1)
BoundariesOf(cs, n) ==
    LET bs == {x \in 0..n : (x \in cs) # ((x - 1) \in cs)}
    IN  [i \in 1..Cardinality(bs) |->
            CHOOSE x \in bs : Cardinality({y \in bs : y < x}) = i - 1]

\* the range set r restricted to [0, n)
Restricted(r, n) == BoundariesOf(RangeChunks(r, n), n)

\* what the first n calls of DecodeResponseIter::next return, up to the
\* first None
RECURSIVE DecodeCalls(_, _, _)
DecodeCalls(d, w, n) ==
    IF n = 0 THEN <<>>
    ELSE LET r == DecodeResponseIter_next(d, w)
         IN  IF r.ret.tag \in {"None", "Panic"} THEN << r.ret >>
             ELSE << r.ret >> \o DecodeCalls(r.dec, w, n - 1)

\* the chunks of the size the stream states
StatedChunks == IF FileLen(wire) >= HeaderLen THEN ByteChunks(StatedSize) ELSE 0

\* the calls of a decoder made with the restricted ranges on the same stream
RestrictedCalls ==
    DecodeCalls(DecodeResponseIter_new(root_hash, block_size,
                                       Restricted(ranges, StatedChunks)),
                wire, Len(rets))

\* a stream is being decoded by a DecodeResponseIter
Decoding == phase = "decode" /\ dec.api = "Response"

NoInvalidQueryRange == \A i \in 1..Len(rets) : rets[i].kind # "InvalidQueryRange"

\* every range of the set begins within the first n chunks
BeginsWithin(r, n) == \A i \in 1..Len(r) : i % 2 = 1 => r[i] < n

RestrictedGivesLess ==
    /\ Decoding
    /\ Finished
    /\ data = <<>>
    /\ ranges = << 0 >>
    /\ rets # RestrictedCalls

(***************************************************************************)
(* DecodeSliceIter asked for any ranges: the stream is the one the sync    *)
(* encoder, which checks no ranges, writes for them, changed on its way or *)
(* not.                                                                    *)
(***************************************************************************)
AskSlice(rs, changed) ==
    /\ phase = "built"
    /\ Served(encode_ranges(data, obs["PreOrder"], rs, 0, NoFault), "encoded", changed, rs)
    /\ phase' = "decode"
    /\ ranges' = rs
    /\ dec' = DecodeSliceIter_new(root_hash, block_size, rs)
    /\ rets' = <<>>
    /\ UNCHANGED <<data, block_size, root_hash, obs>>

\* a call returned InvalidQueryRange
Rejected == \E i \in 1..Len(rets) : rets[i].kind = "InvalidQueryRange"

\* one call of DecodeSliceIter::next by a caller that drops the iterator when
\* its ranges are rejected
AskNext == ~Rejected /\ SliceNext

NextSlice ==
    \/ Build
    \/ \E rs \in ChunkRangesSet : \E changed \in BOOLEAN : AskSlice(rs, changed)
    \/ AskNext

SpecSlice == Init /\ [][NextSlice]_vars

\* a DecodeSliceIter has read the header of its stream
SliceStarted ==
    phase = "decode" /\ dec.api = "Slice" /\ rets # <<>> /\ FileLen(wire) >= HeaderLen

\* the first call returned InvalidQueryRange
RangesRejected == rets[1].tag = "Err" /\ rets[1].kind = "InvalidQueryRange"

\* the header has been read and nothing else, and the stack holds the root hash
OnlyHeaderRead == dec.rd = HeaderLen /\ dec.stack = << root_hash >>

\* the item is a leaf of the blob: the byte range of a Leaf directive and the
\* blob's bytes in it
LeafOfBlob(r) ==
    /\ r.kind = "Leaf"
    /\ r.a = r.dir.start_chunk * ChunkBytes
    /\ Len(r.data) = r.dir.size
    /\ r.a + Len(r.data) <= Len(data)
    /\ r.data = SubSeq(data, r.a + 1, r.a + Len(r.data))

\* C33: ranges that are not within the chunks of the size read from the
\* header are rejected with InvalidQueryRange by the first call, with the 8
\* header bytes read and nothing else and the hash stack as it was; with
\* valid ranges every item returned is a leaf whose hash matched, so a byte
\* range of the blob with the blob's bytes, and no parent is returned
C33_SliceRanges ==
    SliceStarted =>
        IF ~range_ok(ranges, StatedChunks)
        THEN /\ RangesRejected
             /\ Len(rets) = 1 => OnlyHeaderRead
        ELSE \A i \in 1..Len(rets) : rets[i].tag = "Item" => LeafOfBlob(rets[i])

\* ranges that reach beyond the blob were rejected on a stream that holds
\* more than the header
C33_Witness ==
    /\ SliceStarted
    /\ Len(rets) = 1
    /\ RangesRejected
    /\ FileLen(wire) > HeaderLen
    /\ Len(data) > 0

\* a slice of valid ranges with parents was decoded to its end
ValidSliceDecoded ==
    /\ SliceStarted
    /\ range_ok(ranges, StatedChunks)
    /\ Finished
    /\ \E k \in 1..Len(wire) : wire[k].tag = "hash"
    /\ Cardinality({i \in 1..Len(rets) : IsLeafItem(rets[i])}) >= 2

(***************************************************************************)
(* A valid slice decoded to its end (DecodeResponseIter::next, sync.rs     *)
(* 445..517; ResponseIterRef::next, iter.rs 629..708).                     *)
(***************************************************************************)
\* a stream is decoded as it was sent
ValidStream == Decoding /\ feed.tamper = NoTamper

\* the directives of the decoder's traversal
TheDirs == DecoderDirs(Len(data), block_size, ranges)

\* the bytes of the header and of the first n directives
BytesOf(dirs, n) == SumSeq(SubSeq(ItemSizes(dirs), 1, n + 1))

\* the call i returned the item the stream holds for it: the Header first,
\* then one item per directive, then None
CallAsDirected(dirs, i) ==
    IF i = 1 THEN rets[i].tag = "Item" /\ rets[i].kind = "Header" /\ rets[i].a = Len(data)
    ELSE IF i - 1 <= Len(dirs)
    THEN /\ rets[i].tag = "Item"
         /\ rets[i].kind = dirs[i - 1].kind
         /\ rets[i].dir = dirs[i - 1]
    ELSE rets[i] = RetNone

\* a further call returns None and reads nothing
FurtherCallNone ==
    LET r == DecodeResponseIter_next(dec, wire)
    IN  r.ret = RetNone /\ r.dec.rd = dec.rd /\ r.dec.stack = dec.stack

ConsumesSlice(dirs) ==
    /\ \A i \in 1..Len(rets) : CallAsDirected(dirs, i)
    /\ rets # <<>> => dec.rd = BytesOf(dirs, Len(rets) - 1 - (IF Finished THEN 1 ELSE 0))
    /\ Finished => /\ Len(rets) = Len(dirs) + 2
                   /\ dec.rd = FileLen(wire)
                   /\ FurtherCallNone

\* a valid slice: the stream holds, for each directive of the traversal, the
\* pair or the bytes of the blob's tree
ValidSlice == ValidStream /\ wire = AnswerWire(data, block_size, ranges)

\* C34: on a valid slice DecodeResponseIter returns the Header item, then
\* exactly one item per directive of the traversal, then None on every
\* further call; it has then read 8 + 64 * (Parent directives) + the sum of
\* the Leaf sizes bytes, which is the whole slice, and reads nothing more
C34_ConsumesSlice == ValidSlice => ConsumesSlice(TheDirs)

\* the slice an encoder wrote for ranges that are not all chunks, with
\* parents and leaves, was decoded to its end
C34_Witness ==
    /\ ValidSlice
    /\ feed.src = "encoded"
    /\ Finished
    /\ ~FullRange
    /\ \E i \in 1..Len(TheDirs) : TheDirs[i].kind = "Parent" /\ ~TheDirs[i].left
    /\ Cardinality({i \in 1..Len(rets) : IsLeafItem(rets[i])}) >= 2
    /\ dec.rd = HeaderLen + PairLen * Cardinality({i \in 1..Len(rets) : IsParentItem(rets[i])})
                 + SumSeq([i \in 1..Len(TheDirs) |->
                              IF TheDirs[i].kind = "Leaf" THEN TheDirs[i].size ELSE 0])

(***************************************************************************)
(* The node iterators called one next at a time (PostOrderNodeIter,        *)
(* PreOrderNodeIter, iter.rs 124..280).  dec holds the iterator and rets   *)
(* the nodes returned, None for a call that returned None.                 *)
(***************************************************************************)
NodeOrders == {"post", "pre"}

\* the calls made after the iterator returned None for the first time
FurtherCalls == 2

NodeIter_new(order, tree) ==
    IF order = "post" THEN PostOrderNodeIter_new(tree) ELSE PreOrderNodeIter_new(tree)

NodeIter_next(order, it) ==
    IF order = "post" THEN PostOrderNodeIter_next(it) ELSE PreOrderNodeIter_next(it)

\* BaoTree::post_order_nodes_iter, pre_order_nodes_iter
StartNodes(order) ==
    /\ phase = "new"
    /\ phase' = "nodes"
    /\ dec' = [api |-> order, it |-> NodeIter_new(order, BaoTree(Len(data), block_size))]
    /\ rets' = <<>>
    /\ UNCHANGED <<data, block_size, root_hash, obs, ranges, enc, feed, wire>>

NodeReturned(r) ==
    /\ dec' = [dec EXCEPT !.it = r.it]
    /\ rets' = Append(rets, IF r.item = <<>> THEN None ELSE r.item[1])

\* one call of next
NodeNext ==
    /\ phase = "nodes"
    /\ Cardinality({i \in 1..Len(rets) : rets[i] = None}) <= FurtherCalls
    /\ NodeReturned(NodeIter_next(dec.api, dec.it))
    /\ UNCHANGED <<phase, data, block_size, root_hash, obs, ranges, enc, feed, wire>>

NextNodes ==
    \/ \E order \in NodeOrders : StartNodes(order)
    \/ NodeNext

SpecNodes == Init /\ [][NextNodes]_vars

\* the tree whose nodes are iterated
NodeTree == BaoTree(Len(data), block_size)

\* the calls that returned a node
NodeCalls == {i \in 1..Len(rets) : rets[i] # None}

\* the call that returned the node n
CallOfNode(n) == CHOOSE i \in NodeCalls : rets[i] = n

Emitted == {rets[i] : i \in NodeCalls}

\* the nodes below the left and below the right of n
LeftSubtree(n, len) == SubtreeNodes(left_child(n), len)

RightSubtree(n, len) == SubtreeNodes(right_descendant(n, len), len)

\* no node is returned twice, only nodes of the tree are returned, and the
\* nodes come before the Nones
NodesOnce ==
    /\ \A i, j \in NodeCalls : rets[i] = rets[j] => i = j
    /\ Emitted \subseteq TreeNodes(NodeTree)
    /\ \A i \in NodeCalls : \A j \in 1..Len(rets) : rets[j] = None => i < j

\* among the nodes returned so far: post-order
ChildrenFirst(len) ==
    \A n \in Emitted :
        /\ LeftSubtree(n, len) \cup RightSubtree(n, len) \subseteq Emitted
        /\ \A a \in LeftSubtree(n, len) \cup RightSubtree(n, len) :
               CallOfNode(a) < CallOfNode(n)
        /\ \A a \in LeftSubtree(n, len) : \A b \in RightSubtree(n, len) :
               CallOfNode(a) < CallOfNode(b)

\* among the nodes returned so far: pre-order
ParentFirst(len) ==
    \A n \in Emitted :
        \A a \in (LeftSubtree(n, len) \cup RightSubtree(n, len)) \cap Emitted :
            CallOfNode(n) < CallOfNode(a)

\* a call returned None: every node was returned and the iterator is Done
DoneAtEnd ==
    (\E j \in 1..Len(rets) : rets[j] = None)
    => /\ Emitted = TreeNodes(NodeTree)
       /\ Emitted = 0..(filled_size(NodeTree) - 1)
       /\ dec.it.prev = "Done"

\* the iterator is Done only after the last node, and then stays Done
DoneOnlyAtEnd ==
    dec.it.prev = "Done" => Emitted = TreeNodes(NodeTree)

\* C35: PostOrderNodeIter returns every node of the tree exactly once, each
\* after all nodes of its left and right subtrees and the left subtree
\* before the right one; PreOrderNodeIter returns the same nodes exactly
\* once, each before its subtrees; after the last node both are Done and
\* every further call returns None
C35_NodeOrders ==
    phase = "nodes" =>
        /\ NodesOnce
        /\ DoneAtEnd
        /\ DoneOnlyAtEnd
        /\ dec.api = "post" => ChildrenFirst(dec.it.len)
        /\ dec.api = "pre" => ParentFirst(dec.it.len)

\* a tree of three leaf nodes walked to its end and called again
C35_Witness ==
    /\ phase = "nodes"
    /\ filled_size(NodeTree) >= 5
    /\ Cardinality(NodeCalls) = filled_size(NodeTree)
    /\ Len(rets) >= Cardinality(NodeCalls) + 2

(***************************************************************************)
(* decode_response_into (sync.rs 648..690), one turn of its loop at a      *)
(* time.  dec holds [iter, outboard, tree, create, created, target,        *)
(* result]: outboard, tree and result are <<>> for None and <<x>> for      *)
(* Some(x), created lists the trees create was called with, target the     *)
(* calls of write_all_at.  rets holds what the iterator returned.          *)
(***************************************************************************)
IntoStart(h, bs, rs) ==
    [api |-> "Into", iter |-> DecodeResponseIter_new(h, bs, rs),
     outboard |-> <<>>, tree |-> <<>>, create |-> TRUE, created |-> <<>>,
     target |-> <<>>, result |-> <<>>]

\* the caller's create: an empty pre-order outboard for the tree
Create(tree, h) ==
    [ok |-> TRUE, kind |-> "PreOrder", root |-> h, tree |-> tree,
     data |-> EmptyPreOrderFile(tree)]

\* outboard.save(node, &pair); the parent of a little tree carries no node
SaveParent(ob, node, pair) ==
    IF node = None THEN ob ELSE PreOrderOutboard_save(ob, node, pair)

IntoHeader(st, size, bs) == [st EXCEPT !.tree = << BaoTree(size, bs) >>]

\* the Parent arm: the outboard is created when there is none yet
IntoParent(st, h, node, pair) ==
    IF st.outboard # <<>>
    THEN [st EXCEPT !.outboard = << SaveParent(st.outboard[1], node, pair) >>]
    ELSE [st EXCEPT !.outboard = << SaveParent(Create(st.tree[1], h), node, pair) >>,
                    !.tree = <<>>,
                    !.create = FALSE,
                    !.created = Append(@, st.tree[1])]

\* the Leaf arm: target.write_all_at(offset, data)
IntoLeaf(st, offset, bytes) ==
    [st EXCEPT !.target = Append(@, [offset |-> offset, data |-> bytes])]

IntoItem(st, h, r) ==
    CASE r.kind = "Header" -> IntoHeader(st, r.a, st.iter.block_size)
      [] r.kind = "Parent" -> IntoParent(st, h, r.a, r.pair)
      [] OTHER -> IntoLeaf(st, r.a, r.data)

IntoOk(st) == [tag |-> "Ok", kind |-> "None", outboard |-> st.outboard]

IntoErr(tag, kind) == [tag |-> tag, kind |-> kind, outboard |-> <<>>]

\* one turn of the loop; r is what the iterator returned
IntoTurn(st, h, r) ==
    CASE r.ret.tag = "Item" -> IntoItem([st EXCEPT !.iter = r.dec], h, r.ret)
      [] r.ret.tag = "None" -> [st EXCEPT !.iter = r.dec, !.result = << IntoOk(st) >>]
      [] OTHER -> [st EXCEPT !.iter = r.dec,
                             !.result = << IntoErr(r.ret.tag, r.ret.kind) >>]

\* decode_response_into is called on the stream of a source
ServeInto(rs, src, changed) ==
    /\ phase = "built"
    /\ Served(encode_ranges(data, obs["PreOrder"], rs, 0, NoFault), src, changed, rs)
    /\ phase' = "into"
    /\ ranges' = rs
    /\ dec' = IntoStart(root_hash, block_size, rs)
    /\ rets' = <<>>
    /\ UNCHANGED <<data, block_size, root_hash, obs>>

IntoReturned(r) ==
    /\ dec' = IntoTurn(dec, root_hash, r)
    /\ rets' = Append(rets, r.ret)

IntoNext ==
    /\ phase = "into"
    /\ dec.result = <<>>
    /\ IntoReturned(DecodeResponseIter_next(dec.iter, wire))
    /\ UNCHANGED <<phase, data, block_size, root_hash, obs, ranges, enc, feed, wire>>

NextInto ==
    \/ Build
    \/ \E rs \in ChunkRangesSet : \E changed \in BOOLEAN : ServeInto(rs, "answer", changed)
    \/ \E rs \in ChunkRangesSet : ServeInto(rs, "encoded", FALSE)
    \/ IntoNext

SpecInto == Init /\ [][NextInto]_vars

\* what the claims say about decode_response_into
IntoRunning == phase = "into"

\* the Parent and the Leaf items the iterator returned, in order
ParentItems == SelectSeq(rets, IsParentItem)

LeafItems == SelectSeq(rets, IsLeafItem)

\* the tree of the size the header announced
AnnouncedTree == BaoTree(rets[1].a, block_size)

\* create was called at most once, when the first Parent arrived, with the
\* announced tree
CreatedLazily ==
    /\ Len(dec.created) <= 1
    /\ (dec.created # <<>>) <=> (ParentItems # <<>>)
    /\ (dec.outboard # <<>>) <=> (dec.created # <<>>)
    /\ dec.created # <<>> => dec.created[1] = AnnouncedTree /\ dec.outboard[1].tree = AnnouncedTree

\* the outboard holds the pair of every Parent item that names a node
ParentsSaved ==
    \A i \in 1..Len(ParentItems) :
        ParentItems[i].a # None =>
            LET off == 8 + 64 * pre_order_offset(AnnouncedTree, ParentItems[i].a)
                ld == ReadPairAt(dec.outboard[1].data, off)
            IN  ld.ok /\ ld.pair = ParentItems[i].pair

\* the target was written with every Leaf item, at its offset, in the order
\* received, and with nothing else
LeavesWritten ==
    dec.target = [i \in 1..Len(LeafItems) |->
                     [offset |-> LeafItems[i].a, data |-> LeafItems[i].data]]

\* the result: the iterator's error, or the outboard if one was created
ResultAsStated ==
    dec.result # <<>> =>
        IF Last(rets).tag = "None"
        THEN /\ dec.result[1].tag = "Ok"
             /\ dec.result[1].outboard = dec.outboard
             /\ (dec.result[1].outboard = <<>>) <=> (ParentItems = <<>>)
        ELSE /\ dec.result[1].tag = "Err"
             /\ dec.result[1].kind = Last(rets).kind
             /\ \A i \in 1..(Len(rets) - 1) : rets[i].tag = "Item"

\* C36: create is called at most once, when the first Parent item arrives,
\* with the tree of the announced size; every verified Parent that names a
\* node is saved and every verified Leaf is written to the target at its
\* offset in the order received; the result is Ok(None) when the response
\* held no Parent item and Ok(Some(outboard)) otherwise; the first error is
\* returned, with what was written left in place
C36_LazyOutboard ==
    IntoRunning => /\ CreatedLazily
                   /\ ParentsSaved
                   /\ LeavesWritten
                   /\ ResultAsStated

\* the blob is at most one block
OneBlock == Len(data) <= ChunkBytes * 2^block_size

\* C36 as stated: the above, a blob of at most one block being an example of
\* a response without a Parent item
C36_LazyOutboardOneBlock ==
    /\ C36_LazyOutboard
    /\ (IntoRunning /\ OneBlock /\ dec.result # <<>> /\ dec.result[1].tag = "Ok")
           => dec.result[1].outboard = <<>>

\* a blob of at most one block whose response has no Parent item: all of it
\* is requested, or a block is one chunk
OneBlockWhole ==
    (IntoRunning /\ feed.tamper = NoTamper /\ OneBlock /\ dec.result # <<>>
       /\ (block_size = 0 \/ FullRange))
    => dec.result = << IntoOk([outboard |-> <<>>]) >>

\* a response with two Parents and two Leaves went into an outboard and the
\* target
C36_Witness ==
    /\ IntoRunning
    /\ dec.result # <<>>
    /\ dec.result[1].tag = "Ok"
    /\ dec.result[1].outboard # <<>>
    /\ Len(ParentItems) >= 2
    /\ Len(dec.target) >= 2

\* a response of a changed stream ended in an error after a Parent was saved
\* and a Leaf written
IntoFailedLate ==
    /\ IntoRunning
    /\ dec.result # <<>>
    /\ dec.result[1].tag = "Err"
    /\ dec.outboard # <<>>
    /\ dec.target # <<>>

\* a blob of one block, partly requested: the little tree's Parent item makes
\* the result Some
OneBlockGivesSome ==
    /\ IntoRunning
    /\ OneBlock
    /\ feed.tamper = NoTamper
    /\ dec.result # <<>>
    /\ dec.result[1].tag = "Ok"
    /\ dec.result[1].outboard # <<>>

(***************************************************************************)
(* What valid_file_ranges returns, against the pairs on the path from the  *)
(* root to each leaf (sync.rs 837..907).                                   *)
(***************************************************************************)
\* the outboard and the blob the validators were run on
ValidatedOutboard == CorruptOutboard(obs[rets[1].backend], rets[1].corrupt)

ValidatedBlob == CorruptBlob(data, rets[1].corrupt)

\* the hash a node has to verify against: the root hash, or the child hash
\* for its side in the pair of its parent
ExpectedAt(ob, node) ==
    IF node = root(ob.tree) THEN ob.root
    ELSE LET p == restricted_parent(node, filled_size(ob.tree))
             ld == Outboard_load(ob, p)
         IN  IF ~ld.ok \/ ~ld.some THEN ZeroHash
             ELSE IF node < p THEN ld.pair[1] ELSE ld.pair[2]

\* the pair of the node verifies, with is_root only at the root
PairVerified(ob, node) ==
    LET ld == Outboard_load(ob, node)
    IN  /\ ld.ok
        /\ ld.some
        /\ parent_cv(ld.pair[1], ld.pair[2], node = root(ob.tree)) = ExpectedAt(ob, node)

\* the pairs of the node and of every node above it verify
RECURSIVE PathVerified(_, _)
PathVerified(ob, node) ==
    /\ PairVerified(ob, node)
    /\ node # root(ob.tree)
         => PathVerified(ob, restricted_parent(node, filled_size(ob.tree)))

\* the leaf node that holds the chunk
LeafOfChunk(tree, c) ==
    CHOOSE n \in TreeNodes(tree) :
        /\ is_leaf(n)
        /\ BlockChunks(tree, block_range(n).start) <= c
        /\ c < BlockChunks(tree, block_range(n).end)

\* the data of the half s..e of a leaf hashes to the hash expected for it
HalfVerified(blob, s, e, expected, is_root) ==
    /\ e <= Len(blob)
    /\ hash_subtree(ByteChunks(s), SubSeq(blob, s + 1, e), is_root) = expected

\* the chunk was added rightly: the data of its half of the leaf hashes to
\* the child hash, and every pair from the root down to the leaf verifies
ChunkVerified(ob, blob, c) ==
    LET n == LeafOfChunk(ob.tree, c)
        b == leaf_byte_ranges3(ob.tree, n)
    IN  IF is_persisted(ob.tree, n)
        THEN /\ PathVerified(ob, n)
             /\ IF c < ByteChunks(b.m)
                THEN HalfVerified(blob, b.s, b.m, Outboard_load(ob, n).pair[1], FALSE)
                ELSE HalfVerified(blob, b.m, b.e, Outboard_load(ob, n).pair[2], FALSE)
        ELSE /\ n # root(ob.tree)
                  => PathVerified(ob, restricted_parent(n, filled_size(ob.tree)))
             /\ c < Max(ByteChunks(b.m), 1)
             /\ HalfVerified(blob, b.s, b.m, ExpectedAt(ob, n), n = root(ob.tree))

\* the chunks below a node
ChunksBelow(tree, node) ==
    ChunkRange(BlockChunks(tree, block_range(node).start),
               BlockChunks(tree, block_range(node).end))

\* nothing below a node whose pair does not verify is in the result
MismatchPrunes(ob, res) ==
    \A n \in PersistedNodes(ob.tree) :
        ~PairVerified(ob, n) => res \cap ChunksBelow(ob.tree, n) = {}

\* C37: every chunk in the result of valid_file_ranges was added after its
\* leaf data hashed to the expected child hash and after every pair on the
\* path from the root to the leaf verified, with is_root only at the root;
\* the subtree below a mismatching parent contributes nothing
C37_FileRangesVerified ==
    (phase = "validated" /\ rets[1].file.ok)
    => /\ \A c \in rets[1].file.res :
              ChunkVerified(ValidatedOutboard, ValidatedBlob, c)
       /\ MismatchPrunes(ValidatedOutboard, rets[1].file.res)

\* a changed pair below the root pruned its subtree, and the chunks of the
\* other subtree are in the result
C37_Witness ==
    /\ phase = "validated"
    /\ rets[1].file.ok
    /\ rets[1].corrupt.kind = "outboard"
    /\ PairVerified(ValidatedOutboard, root(ValidatedOutboard.tree))
    /\ \E n \in PersistedNodes(ValidatedOutboard.tree) : ~PairVerified(ValidatedOutboard, n)
    /\ rets[1].file.res # {}
    /\ rets[1].file.res # AllChunks

(***************************************************************************)
(* The two builders on the same blob: write_outboard_from_mem into an      *)
(* empty pre-order outboard made for the blob's tree, given the blob or a  *)
(* blob of another length, and outboard_post_order_impl (sync.rs           *)
(* 732..811).  rets holds the calls made, each builder at most once.       *)
(***************************************************************************)
\* an outboard for the tree of the blob with no pair saved yet
EmptyOutboard ==
    PreOrderOutboard_new(ZeroHash, block_size,
                         EmptyPreOrderFile(BaoTree(Len(data), block_size)))

CalledBuilder(op) == \E i \in 1..Len(rets) : rets[i].op = op

MemCall(given, ob) ==
    [op |-> "mem", given |-> given, before |-> ob,
     mem |-> write_outboard_from_mem(given, ob), run |-> BuildStart]

StreamCall(tree, blob) ==
    [op |-> "stream", given |-> blob, before |-> EmptyOutboard,
     mem |-> [ok |-> TRUE, ob |-> EmptyOutboard, hash |-> ZeroHash],
     run |-> outboard_post_order_impl(tree, blob)]

\* write_outboard_from_mem(given, outboard)
FillMem ==
    /\ phase \in {"new", "builders"}
    /\ ~CalledBuilder("mem")
    /\ \E given \in GivenBlobs(data) : rets' = Append(rets, MemCall(given, EmptyOutboard))
    /\ phase' = "builders"
    /\ UNCHANGED <<data, block_size, root_hash, obs, ranges, enc, feed, wire, dec>>

\* outboard_post_order_impl(tree, data, outboard, buffer)
FillStream ==
    /\ phase \in {"new", "builders"}
    /\ ~CalledBuilder("stream")
    /\ rets' = Append(rets, StreamCall(BaoTree(Len(data), block_size), data))
    /\ phase' = "builders"
    /\ UNCHANGED <<data, block_size, root_hash, obs, ranges, enc, feed, wire, dec>>

NextFill ==
    \/ FillMem
    \/ FillStream

SpecFill == Init /\ [][NextFill]_vars

\* the call of a builder
BuilderCall(op) == rets[CHOOSE i \in 1..Len(rets) : rets[i].op = op]

\* the pair the in-memory builder saved for the node
SavedPair(ob, node) == ReadPairAt(ob.data, 8 + 64 * pre_order_offset(ob.tree, node))

\* the pair the streaming builder wrote at the node's position in post-order
WrittenPair(out, tree, node) ==
    << out[2 * post_order_offset(tree, node) + 1], out[2 * post_order_offset(tree, node) + 2] >>

\* both builders ran on the same blob
BothBuilt ==
    /\ phase = "builders"
    /\ CalledBuilder("mem")
    /\ CalledBuilder("stream")
    /\ BuilderCall("mem").given = data

BuildersAgree(m, s, tree) ==
    /\ m.ok
    /\ ~s.panic
    /\ s.stack = << m.hash >>
    /\ Len(s.out) = 2 * Cardinality(PersistedNodes(tree))
    /\ \A n \in PersistedNodes(tree) :
           /\ SavedPair(m.ob, n).ok
           /\ SavedPair(m.ob, n).pair
                = << WrittenPair(s.out, tree, n)[1].hash, WrittenPair(s.out, tree, n)[2].hash >>

\* given data of another length the in-memory builder fails and saves nothing
OtherLengthFails ==
    (phase = "builders" /\ CalledBuilder("mem")
        /\ Len(BuilderCall("mem").given) # Len(data))
    => /\ ~BuilderCall("mem").mem.ok
       /\ BuilderCall("mem").mem.ob = BuilderCall("mem").before

\* C38: for the same blob and block size both builders return the same root
\* hash, and the pair the in-memory builder saves for each persisted node is
\* the pair the streaming builder writes at the node's position in
\* post-order; given data whose length differs from the tree size the
\* in-memory builder fails and saves nothing
C38_BuildersAgree ==
    /\ BothBuilt => BuildersAgree(BuilderCall("mem").mem, BuilderCall("stream").run,
                                  BaoTree(Len(data), block_size))
    /\ OtherLengthFails

\* both builders ran on a blob whose tree has three persisted nodes or more
C38_Witness ==
    /\ BothBuilt
    /\ Cardinality(PersistedNodes(BaoTree(Len(data), block_size))) >= 3
    /\ BuilderCall("mem").mem.ob # BuilderCall("mem").before

\* the in-memory builder was given a blob of another length
OtherLengthGiven ==
    /\ phase = "builders"
    /\ CalledBuilder("mem")
    /\ Len(BuilderCall("mem").given) # Len(data)
    /\ Len(data) > ChunkBytes

(***************************************************************************)
(* The outboard constructors (SpecConstruct): PreOrderOutboard::new,       *)
(* PostOrderOutboard::new, PreOrderMemOutboard::load and                   *)
(* PostOrderMemOutboard::load (sync.rs 135..310) on the file of a built    *)
(* outboard, on that file with a pair missing or a pair too many, with     *)
(* another size stated in its 8 bytes, and on files shorter than 8 bytes.  *)
(* rets holds the call: [ctor, shape, stated, file, made].                 *)
(***************************************************************************)
Constructors == {"PreOrderOutboard", "PostOrderOutboard",
                 "PreOrderMemOutboard", "PostOrderMemOutboard"}

PreOrderConstructors == {"PreOrderOutboard", "PreOrderMemOutboard"}

\* the pairs of a file: as built, without the last pair, with one pair more
FileShapes == {"built", "less", "more"}

ShapedPairs(pairs, shape) ==
    CASE shape = "less" -> SubSeq(pairs, 1, Len(pairs) - 2)
      [] shape = "more" -> pairs \o << HashField(ZeroHash), HashField(ZeroHash) >>
      [] OTHER -> pairs

\* the sizes stated in the 8 bytes: the blob's, one byte more, one byte
\* less, one block more
StatedSizes(size, bs) ==
    {size, size + 1, size + ChunkBytes * (2 ^ bs)} \cup (IF size > 0 THEN {size - 1} ELSE {})

\* the files given to the constructors of one layout
OutboardFile(ctor, pairs, shape, stated) ==
    IF ctor \in PreOrderConstructors
    THEN << HeaderField(stated) >> \o ShapedPairs(pairs, shape)
    ELSE ShapedPairs(pairs, shape) \o << HeaderField(stated) >>

\* files of fewer than 8 bytes: nothing, and the size without its last byte
ShortFiles(size) == { <<>>, << BytesField(to_le_bytes(size, 7)) >> }

Constructed(ctor, h, bs, file) ==
    CASE ctor = "PreOrderOutboard" -> PreOrderOutboard_new(h, bs, file)
      [] ctor = "PostOrderOutboard" -> PostOrderOutboard_new(h, bs, file)
      [] ctor = "PreOrderMemOutboard" -> PreOrderMemOutboard_new(h, file, bs)
      [] OTHER -> PostOrderMemOutboard_new(h, file, bs)

ConstructCall(ctor, shape, stated, file) ==
    [ctor |-> ctor, shape |-> shape, stated |-> stated, file |-> file,
     made |-> Constructed(ctor, root_hash, block_size, file)]

\* the pairs of the built outboard in the layout of the constructor
BuiltPairs(ctor) ==
    IF ctor \in PreOrderConstructors THEN Tail(obs["PreOrder"].data)
    ELSE obs["PostOrderMem"].data

\* a constructor on a file of 8 bytes or more
Construct(ctor) ==
    /\ phase = "built"
    /\ \E shape \in FileShapes : \E stated \in StatedSizes(Len(data), block_size) :
          /\ shape = "less" => Len(BuiltPairs(ctor)) >= 2
          /\ rets' = << ConstructCall(ctor, shape, stated,
                                      OutboardFile(ctor, BuiltPairs(ctor), shape, stated)) >>
    /\ phase' = "constructed"
    /\ UNCHANGED <<data, block_size, root_hash, obs, ranges, enc, feed, wire, dec>>

\* a constructor on a file of fewer than 8 bytes
ConstructShort(ctor) ==
    /\ phase = "built"
    /\ \E file \in ShortFiles(Len(data)) :
          rets' = << ConstructCall(ctor, "short", None, file) >>
    /\ phase' = "constructed"
    /\ UNCHANGED <<data, block_size, root_hash, obs, ranges, enc, feed, wire, dec>>

NextConstruct ==
    \/ Build
    \/ \E ctor \in Constructors : Construct(ctor)
    \/ \E ctor \in Constructors : ConstructShort(ctor)

SpecConstruct == Init /\ [][NextConstruct]_vars

\* the bytes of the fields of a file, counted field by field
TotalLength(file) ==
    8 * Cardinality({k \in 1..Len(file) : file[k].tag = "bytes" /\ Len(file[k].bytes) = 8})
    + 7 * Cardinality({k \in 1..Len(file) : file[k].tag = "bytes" /\ Len(file[k].bytes) = 7})
    + 32 * Cardinality({k \in 1..Len(file) : file[k].tag = "hash"})

\* 8 bytes and 64 bytes for each persisted node of the tree of the size
ExpectedFileLength(size, bs) == 8 + 64 * Cardinality(PersistedNodes(BaoTree(size, bs)))

\* the file is one the constructors are to take
FileFits(c, bs) ==
    /\ c.shape # "short"
    /\ TotalLength(c.file) = ExpectedFileLength(c.stated, bs)

\* the pairs an outboard made by the constructor holds
PairsKept(c) ==
    IF c.ctor \in {"PreOrderOutboard", "PostOrderOutboard"} THEN c.made.data = c.file
    ELSE c.made.data = ShapedPairs(BuiltPairs(c.ctor), c.shape)

ConstructedAsStated(c, bs) ==
    IF FileFits(c, bs)
    THEN /\ c.made.ok
         /\ c.made.tree = BaoTree(c.stated, bs)
         /\ c.made.tree.size = c.stated
         /\ c.made.tree.block_size = bs
         /\ PairsKept(c)
    ELSE ~c.made.ok

\* C39: each outboard constructor reads the blob size from the 8-byte
\* prefix (pre-order) or suffix (post-order) and fails, constructing no
\* outboard, whenever the file is shorter than 8 bytes or its length is
\* not outboard_size(size, block_size); on success the tree it reports has
\* that size and the block size given
C39_ConstructorsCheckSize ==
    phase = "constructed" => ConstructedAsStated(rets[1], block_size)

\* a constructor took the file of a built outboard that holds three pairs
\* or more
C39_Witness ==
    /\ phase = "constructed"
    /\ rets[1].made.ok
    /\ rets[1].shape = "built"
    /\ rets[1].stated = Len(data)
    /\ Len(rets[1].file) >= 7

\* a file with another size stated in it was taken
OtherSizeTaken ==
    /\ phase = "constructed"
    /\ rets[1].made.ok
    /\ rets[1].stated # Len(data)
    /\ rets[1].ctor = "PostOrderMemOutboard"

\* a file with a pair missing was refused
LessRefused ==
    /\ phase = "constructed"
    /\ ~rets[1].made.ok
    /\ rets[1].shape = "less"
    /\ rets[1].ctor = "PreOrderMemOutboard"

\* a file of 7 bytes was refused
ShortRefused ==
    /\ phase = "constructed"
    /\ ~rets[1].made.ok
    /\ rets[1].shape = "short"
    /\ rets[1].file # <<>>
    /\ rets[1].ctor = "PostOrderOutboard"

(***************************************************************************)
(* BlockSize (tree.rs 21..74): the log2 of the block's bytes / 1024, a u8. *)
(* bytes() shifts a usize, from_bytes takes a u64.  The widths are         *)
(* UsizeBits and U64Bits; a shift by the width or more panics in a build   *)
(* with overflow checks and is a shift by the amount modulo the width in   *)
(* a build without.                                                        *)
(***************************************************************************)
BLAKE3_CHUNK_SIZE == 1024

\* log2 of BLAKE3_CHUNK_SIZE, as written in from_bytes
ChunkSizeLog == 10

UsizeBits == 16

U64Bits == 16

RECURSIVE count_ones(_)
count_ones(n) == IF n = 0 THEN 0 ELSE (n % 2) + count_ones(n \div 2)

RECURSIVE trailing_zeros(_)
trailing_zeros(n) ==
    IF n = 0 THEN U64Bits
    ELSE IF n % 2 = 1 THEN 0 ELSE 1 + trailing_zeros(n \div 2)

SomeBlockSize(log) == [some |-> TRUE, log |-> log]

NoBlockSize == [some |-> FALSE, log |-> 0]

\* a from_bytes without the check for 1024 bytes
BlockSize_from_bytes_any_power(bytes) ==
    IF count_ones(bytes) # 1 THEN NoBlockSize
    ELSE SomeBlockSize((trailing_zeros(bytes) - ChunkSizeLog) % (U8Max + 1))

\* BlockSize::from_bytes(bytes)
BlockSize_from_bytes(bytes) ==
    IF count_ones(bytes) # 1 THEN NoBlockSize
    ELSE IF bytes < 1024 THEN NoBlockSize
    ELSE SomeBlockSize((trailing_zeros(bytes) - ChunkSizeLog) % (U8Max + 1))

\* BlockSize::bytes(self): BLAKE3_CHUNK_SIZE << self.0
BlockSize_bytes(log, checks) ==
    IF log >= UsizeBits
    THEN IF checks THEN [panic |-> TRUE, value |-> 0]
         ELSE [panic |-> FALSE,
               value |-> (BLAKE3_CHUNK_SIZE * (2 ^ (log % UsizeBits))) % (2 ^ UsizeBits)]
    ELSE [panic |-> FALSE, value |-> (BLAKE3_CHUNK_SIZE * (2 ^ log)) % (2 ^ UsizeBits)]

\* from_bytes of what bytes() returned
BackToBlockSize(b) ==
    IF b.panic \/ b.value >= 2 ^ U64Bits THEN NoBlockSize ELSE BlockSize_from_bytes(b.value)

\* bytes() of what from_bytes returned
BackToBytes(s, checks) ==
    IF s.some THEN BlockSize_bytes(s.log, checks) ELSE [panic |-> FALSE, value |-> 0]

\* s.bytes() and from_bytes of it, for a block size s
CallBytes ==
    /\ phase = "new"
    /\ \E log \in 0..U8Max : \E checks \in BOOLEAN :
          rets' = << [op |-> "bytes", arg |-> log, checks |-> checks,
                      bytes |-> BlockSize_bytes(log, checks),
                      made |-> BackToBlockSize(BlockSize_bytes(log, checks))] >>
    /\ phase' = "blocksize"
    /\ UNCHANGED <<data, block_size, root_hash, obs, ranges, enc, feed, wire, dec>>

\* from_bytes(b) and bytes() of it, for a number b
CallFromBytes ==
    /\ phase = "new"
    /\ \E b \in 0..(2 ^ U64Bits - 1) : \E checks \in BOOLEAN :
          rets' = << [op |-> "from_bytes", arg |-> b, checks |-> checks,
                      bytes |-> BackToBytes(BlockSize_from_bytes(b), checks),
                      made |-> BlockSize_from_bytes(b)] >>
    /\ phase' = "blocksize"
    /\ UNCHANGED <<data, block_size, root_hash, obs, ranges, enc, feed, wire, dec>>

NextBlockSize ==
    \/ CallBytes
    \/ CallFromBytes

SpecBlockSize == Init /\ [][NextBlockSize]_vars

\* the byte count of the block size fits the usize
FitsWidth(log) == \E k \in 0..(UsizeBits - 1) : k = log + ChunkSizeLog

IsPowerOfTwo(b) == \E k \in 0..(U64Bits - 1) : b = 2 ^ k

\* 1024 doubled log times
Doubled(log) == IF log = 0 THEN 1024 ELSE IF log = 1 THEN 2048 ELSE 4096 * (2 ^ (log - 2))

BytesAsStated(c) ==
    FitsWidth(c.arg) =>
        /\ ~c.bytes.panic
        /\ c.bytes.value = Doubled(c.arg)
        /\ c.bytes.value < 2 ^ U64Bits => c.made = SomeBlockSize(c.arg)

FromBytesAsStated(c) ==
    /\ c.made.some <=> (IsPowerOfTwo(c.arg) /\ c.arg >= 1024)
    /\ (c.made.some /\ FitsWidth(c.made.log)) =>
           /\ ~c.bytes.panic
           /\ c.bytes.value = c.arg

BytesOfOne ==
    /\ phase = "blocksize"
    /\ rets[1].op = "bytes"
    /\ rets[1].arg = 1
    /\ rets[1].bytes.value = 2048
    /\ rets[1].made = SomeBlockSize(1)

\* bytes() of a block size whose byte count does not fit is not 1024 * 2^log
BytesWrapped ==
    /\ phase = "blocksize"
    /\ rets[1].op = "bytes"
    /\ ~FitsWidth(rets[1].arg)
    /\ ~rets[1].bytes.panic
    /\ rets[1].bytes.value = 0

=============================================================================
